---- MODULE Spec2Model ----
(***************************************************************************)
(* The gch collector (namespace gc): the collector loop of gc.cpp, the     *)
(* mutator side (enter, leave, handshake), the write barrier and the       *)
(* colour encoding of gc.hpp, over a small heap of objects with one strong *)
(* pointer field each.                                                     *)
(*                                                                         *)
(* Threads are 0 (the collector) and 1..NMut (the mutators).  A critical   *)
(* section of a channel mutex is one step; every atomic operation on a     *)
(* colour or on a pointer field is one step of the thread that performs    *)
(* it.  A failed assert or an abort() ends the process (aborted).          *)
(*                                                                         *)
(* The second part is the interning set of ctrie.cpp (namespace            *)
(* gc::_ctrie): the operations lookup, emplace and remove of the Ctrie,    *)
(* one step per atomic load or compare_exchange, first on their own        *)
(* (CtrieSpec) and then under the collector's cycle of flip, trace, scan,  *)
(* sweep and remap over the S-nodes (InternSpec).                          *)
(***************************************************************************)
EXTENDS Integers, Sequences, FiniteSets, TLC

NMut == 1
NObj == 2
MaxCycles == 2
MaxDepth == 1
MaxNest == 2
MaxEnters == 1
MaxRoots == 1
MaxGlobalRoots == 1
MaxOps == 4

GRAY == 1
RED == 3
WhiteInit == 0
CollectorMask == 1
PushMask == 2

Null == 0
Collector == 0
Mutators == 1..NMut
Threads == 0..NMut
Objs == 1..NObj

\* Bitwise exclusive or on the two low bits, the only ones the colours use.
Xor(a, b) ==
    (((a % 2) + (b % 2)) % 2) + 2 * ((((a \div 2) % 2) + ((b \div 2) % 2)) % 2)

\* The Channel a thread creates at its k-th outermost enter.
ChanId(t, k) == (k - 1) * (NMut + 1) + t + 1
Chans == 1..(MaxEnters * (NMut + 1))

NewChannel ==
    [live |-> TRUE, abandoned |-> FALSE, pending |-> FALSE, dirty |-> FALSE,
     request_infants |-> FALSE, infants |-> << >>]
NoChannel ==
    [live |-> FALSE, abandoned |-> FALSE, pending |-> FALSE, dirty |-> FALSE,
     request_infants |-> FALSE, infants |-> << >>]

VARIABLES
    gwhite, galloc, entrants, groots,
    chan,
    ldirty, lalloc, lroots, lchan, ldepth, enters,
    color, field, status,
    cpc, round, cycle, white, black, wwhite,
    mutators, mutators2, objects, stack, idx, first, cwaiting,
    mpc, reg, tmp, ops,
    aborted,
    owed, rounddirt, late, rescans, flipwhite,
    sview, scolor, sstatus, sobjects, slocal, imain, shiftmode,
    tpc, top, tpath, tcn, tdes, tkind, tres, tj, tops, held,
    wpc, widx, wack,
    retd, absent, ubshift, redcycle, hsince, touched, expect,
    nodes, global_stack, global_integers, channels, local, collect, mutate,
    fatal,
    deques, pages, fifo, pushes,
    strs, strset, strmutex, strthr, strgc, strobjects,
    inner, semaphore, chthr, sent, rcvd

globalVars == << gwhite, galloc, entrants, groots >>
localVars  == << ldirty, lalloc, lroots, lchan, ldepth, enters >>
heapVars   == << color, field, status >>
collVars   == << cpc, round, cycle, white, black, wwhite,
                 mutators, mutators2, objects, stack, idx, first, cwaiting >>
mutVars    == << mpc, reg, tmp, ops >>
ghostVars  == << owed, rounddirt, late, rescans, flipwhite >>
vars == << gwhite, galloc, entrants, groots, chan,
           ldirty, lalloc, lroots, lchan, ldepth, enters,
           color, field, status,
           cpc, round, cycle, white, black, wwhite,
           mutators, mutators2, objects, stack, idx, first, cwaiting,
           mpc, reg, tmp, ops, aborted, owed, rounddirt, late,
           rescans, flipwhite,
           sview, scolor, sstatus, sobjects, slocal, imain, shiftmode,
           tpc, top, tpath, tcn, tdes, tkind, tres, tj, tops, held,
           wpc, widx, wack,
           retd, absent, ubshift, redcycle, hsince, touched, expect,
           nodes, global_stack, global_integers, channels, local, collect,
           mutate, fatal, deques, pages, fifo, pushes,
           strs, strset, strmutex, strthr, strgc, strobjects,
           inner, semaphore, chthr, sent, rcvd >>

\* The variables of the mutex-based String of string.hpp and of the
\* Channel of channel.hpp, each taken on its own.
strVars == << strs, strset, strmutex, strthr, strgc, strobjects >>
chanVars == << inner, semaphore, chthr, sent, rcvd >>
partVars == << strVars, chanVars >>

\* The variables of the deque of queue.hpp, taken on its own.
queueVars == << deques, pages, fifo, pushes >>

\* The variables of the stack exercise of main.cpp (namespace gch3), which
\* has a collector of its own.
stackVars == << nodes, global_stack, global_integers, channels, local,
                collect, mutate, fatal >>

\* The variables of the interning set, which the collector model above
\* leaves alone.
trieVars == << sview, scolor, sstatus, sobjects, slocal, imain, shiftmode,
               tpc, top, tpath, tcn, tdes, tkind, tres, tj, tops, held,
               wpc, widx, wack,
               retd, absent, ubshift, redcycle, hsince, touched, expect >>
ctVars == << trieVars, stackVars, queueVars, partVars >>

\* The collector of gc.cpp and the interning set.
gcTrieVars == << globalVars, chan, localVars, heapVars, collVars, mutVars,
                aborted, ghostVars, trieVars >>
\* Everything but the stack exercise.
gchVars == << gcTrieVars, queueVars, partVars >>

NoTmp == [x |-> Null, d |-> Null, e |-> Null]

----------------------------------------------------------------------------
(* The interning set: the Ctrie of ctrie.cpp and its S-nodes.              *)
(*                                                                         *)
(* Trie threads are 0 (the collector, which calls remove from              *)
(* SNode::sweep) and 1..NCt (mutators).  Main nodes (C, T, L) are          *)
(* immutable once published; a main node is its contents together with an *)
(* id that stands for its address, and compare_exchange on INode::main     *)
(* compares ids.  The hash is HashBits wide and a level consumes LevBits   *)
(* of it (64 and 6 in the code).  I-, C-, T- and L-nodes are taken to stay *)
(* allocated; S-nodes are coloured, swept and deleted.                     *)

NCt == 2
NViews == 3
MaxS == 7
MaxI == 7
HashBits == 5
LevBits == 2
MaxCtOps == 2
NIntern == 1
MaxInternOps == 3
MaxCtCycles == 3

UpgradeMask == 2
ContextMask == 2

\* The stack exercise (main.cpp): THREADS mutators, each pushing the
\* integers index, index + THREADS, ... up to KLimit (10000000 in the code)
\* in batches of BatchOps operations (1000 in the code) between handshakes.
THREADS == 2
KLimit == 2
BatchOps == 1
GREEN == 3

Indices == 0..(THREADS - 1)
\* The thread that runs collect().
C0 == THREADS
\* A Node<int> is named by its payload, which no other node has: k is at
\* most KLimit when a batch begins and grows by THREADS with every push.
Nodes == 1..(KLimit + THREADS * (BatchOps - 1) + 1)

\* struct Configuration: GRAY and GREEN keep their values.
Configuration == [WHITE |-> 0, BLACK |-> 2, ALLOC |-> 0]

\* thread_local Local local; Channel channels[THREADS] = {}; the locals of
\* collect() and of mutate(index) before their first statement.
StackInit ==
    /\ nodes = [n \in Nodes |-> [color |-> GREEN, next |-> Null, payload |-> 0,
                                 state |-> "none", pushed |-> FALSE]]
    /\ global_stack = Null
    /\ global_integers = << >>
    /\ channels = [i \in Indices |->
                      [pending |-> FALSE, configuration |-> Configuration,
                       dirty |-> FALSE, infants |-> << >>]]
    /\ local = [t \in Indices \cup {C0} |->
                   [WHITE |-> Configuration.WHITE, BLACK |-> Configuration.BLACK,
                    ALLOC |-> Configuration.ALLOC, dirty |-> FALSE,
                    infants |-> << >>]]
    /\ collect = [pc |-> "begin", i |-> 0, objects |-> << >>, first |-> 1,
                  parent |-> Null]
    /\ mutate = [i \in Indices |->
                    [pc |-> "handshake", k |-> i, integers |-> << >>,
                     expected |-> Null, desired |-> Null, old |-> Null,
                     i |-> 0]]
    /\ fatal = "none"

\* The deque of queue.hpp: two deques, pages of COUNT elements (510 for a
\* pointer in the code), at most MaxPages pages and MaxPushes calls of
\* push_back.
COUNT == 3
MaxPages == 5
MaxPushes == 6
Deques == 1..2
Pages == 1..MaxPages
INIT == COUNT \div 2

\* A T* into a page: the node it lies in (_node_from) and its index in
\* elements, COUNT for node->end(); nullptr.
Ptr(n, k) == [node |-> n, off |-> k]
NullPtr == Ptr(0, 0)

\* deque(): _begin(nullptr), _end(nullptr); no node_type allocated.
QueueInit ==
    /\ deques = [d \in Deques |-> [begin |-> NullPtr, end |-> NullPtr]]
    /\ pages = [n \in Pages |->
                   [live |-> FALSE, prev |-> 0, next |-> 0,
                    elements |-> [k \in 0..(COUNT - 1) |-> 0]]]
    /\ fifo = [d \in Deques |-> << >>]
    /\ pushes = 0

CtMutators == 1..NCt
CtThreads == 0..NCt
\* The mutators that run beside the collector.
Interners == 1..NIntern
Views == 1..NViews
SNodes == 1..MaxS
INodes == 1..MaxI
RootI == 1

\* std::hash of the views: views 1 and 2 collide on every bit, view 3 agrees
\* with them on every bit below the last level, the others differ at level 0.
HashOf == << 0, 0, 16, 1, 17, 2 >>

Branch(k, p) == [k |-> k, p |-> p]
MainC(id, bmp, array) ==
    [kind |-> "C", id |-> id, bmp |-> bmp, array |-> array, sn |-> 0,
     chain |-> << >>]
MainT(id, sn) ==
    [kind |-> "T", id |-> id, bmp |-> {}, array |-> << >>, sn |-> sn,
     chain |-> << >>]
MainL(chain) ==
    [kind |-> "L", id |-> chain[1].id, bmp |-> {}, array |-> << >>,
     sn |-> chain[1].sn, chain |-> chain]
NoMain ==
    [kind |-> "none", id |-> 0, bmp |-> {}, array |-> << >>, sn |-> 0,
     chain |-> << >>]

NoOp == [op |-> "none", view |-> 0, k |-> 0]

\* Ctrie::Ctrie(): root(new INode(new CNode)); no S-node, no operation.
\* tops is the number of operations a thread may still begin.
CtrieInit ==
    /\ sview = [s \in SNodes |-> 0]
    /\ scolor = [s \in SNodes |-> 0]
    /\ sstatus = [s \in SNodes |-> "free"]
    /\ sobjects = << >>
    /\ slocal = [t \in CtThreads |-> << >>]
    /\ imain = [i \in INodes |-> IF i = RootI THEN MainC(1, {}, << >>) ELSE NoMain]
    /\ tpc = [t \in CtThreads |-> "idle"]
    /\ top = [t \in CtThreads |-> NoOp]
    /\ tpath = [t \in CtThreads |-> << >>]
    /\ tcn = [t \in CtThreads |-> NoMain]
    /\ tdes = [t \in CtThreads |-> NoMain]
    /\ tkind = [t \in CtThreads |-> "none"]
    /\ tres = [t \in CtThreads |-> 0]
    /\ tj = [t \in CtThreads |-> 0]
    /\ held = [t \in CtThreads |-> {}]
    /\ wpc = "off"
    /\ widx = 1
    /\ wack = {}
    /\ retd = [v \in Views |-> {}]
    /\ absent = [v \in Views |-> FALSE]
    /\ ubshift = FALSE
    /\ redcycle = [s \in SNodes |-> 0]
    /\ hsince = [s \in SNodes |-> {}]
    /\ touched = {}
    /\ expect = [t \in CtThreads |-> 0]


\* The parts of the repository that a specification does not run are not
\* constructed in it: their variables hold nothing and no action of the
\* specification reads or writes them.
NoTrie ==
    /\ sview = << >> /\ scolor = << >> /\ sstatus = << >> /\ sobjects = << >>
    /\ slocal = << >> /\ imain = << >> /\ tpc = << >> /\ top = << >>
    /\ tpath = << >> /\ tcn = << >> /\ tdes = << >> /\ tkind = << >>
    /\ tres = << >> /\ tj = << >> /\ held = << >> /\ wpc = "off" /\ widx = 1
    /\ wack = {} /\ retd = << >> /\ absent = << >> /\ ubshift = FALSE
    /\ redcycle = << >> /\ hsince = << >> /\ touched = {} /\ expect = << >>
    /\ tops = << >> /\ shiftmode = "wrap"
NoStack ==
    /\ nodes = << >> /\ global_stack = Null /\ global_integers = << >>
    /\ channels = << >> /\ local = << >> /\ collect = << >> /\ mutate = << >>
    /\ fatal = "none"
NoQueue == deques = << >> /\ pages = << >> /\ fifo = << >> /\ pushes = 0
NoStr ==
    /\ strs = << >> /\ strset = {} /\ strmutex = 0 /\ strthr = << >>
    /\ strgc = << >> /\ strobjects = << >>
NoChan ==
    /\ inner = << >> /\ semaphore = 0 /\ chthr = << >> /\ sent = << >>
    /\ rcvd = << >>

GcInit ==
    /\ gwhite = WhiteInit
    /\ galloc = WhiteInit
    /\ entrants = << >>
    /\ groots = {}
    /\ chan = [c \in Chans |-> NoChannel]
    /\ ldirty = [t \in Threads |-> FALSE]
    /\ lalloc = [t \in Threads |-> << >>]
    /\ lroots = [t \in Threads |-> << >>]
    /\ lchan = [t \in Threads |-> Null]
    /\ ldepth = [t \in Threads |-> 0]
    /\ enters = [t \in Threads |-> 0]
    /\ color = [o \in Objs |-> 0]
    /\ field = [o \in Objs |-> Null]
    /\ status = [o \in Objs |-> "free"]
    /\ cpc = "enter"
    /\ round = "flip"
    /\ cycle = 1
    /\ white = WhiteInit
    /\ black = WhiteInit
    /\ wwhite = WhiteInit
    /\ mutators = << >>
    /\ mutators2 = << >>
    /\ objects = << >>
    /\ stack = << >>
    /\ idx = 1
    /\ first = 1
    /\ cwaiting = FALSE
    /\ mpc = [m \in Mutators |-> "idle"]
    /\ reg = [m \in Mutators |-> Null]
    /\ tmp = [m \in Mutators |-> NoTmp]
    /\ ops = [m \in Mutators |-> 0]
    /\ aborted = FALSE
    /\ owed = [c \in Chans |-> FALSE]
    /\ rounddirt = FALSE
    /\ rescans = 0
    /\ flipwhite = 0
    /\ late = [m \in Mutators |-> {}]

Init ==
    /\ GcInit
    /\ NoTrie
    /\ NoStack
    /\ NoQueue /\ NoStr /\ NoChan

----------------------------------------------------------------------------
\* Object::shade: one compare-exchange from the current global white to GRAY.
ShadeHits(col, o) == o # Null /\ col[o] = gwhite
Shaded(col, o) == IF ShadeHits(col, o) THEN [col EXCEPT ![o] = GRAY] ELSE col

\* shade applied to every element of a sequence of roots, in order.
RECURSIVE ShadedAll(_, _)
ShadedAll(col, s) ==
    IF s = << >> THEN col ELSE ShadedAll(Shaded(col, Head(s)), Tail(s))

NoShadeHits(col, s) == FALSE
RECURSIVE AnyShadeHits(_, _)
AnyShadeHits(col, s) ==
    IF s = << >> THEN FALSE
    ELSE ShadeHits(col, Head(s)) \/ AnyShadeHits(Shaded(col, Head(s)), Tail(s))

SeqOfSet(S) ==
    LET RECURSIVE F(_)
        F(T) == IF T = {} THEN << >>
                ELSE LET x == CHOOSE y \in T : \A z \in T : y <= z
                     IN << x >> \o F(T \ {x})
    IN F(S)

Range(s) == {s[i] : i \in 1..Len(s)}
Last(s) == s[Len(s)]
Front(s) == SubSeq(s, 1, Len(s) - 1)

----------------------------------------------------------------------------
\* enter(): only the outermost call creates and publishes a Channel.
EnterRepublishes(t, cap) ==
    /\ ldepth[t] < cap
    /\ ldepth[t] = 0 => enters[t] < MaxEnters
    /\ ldepth' = [ldepth EXCEPT ![t] = @ + 1]
    /\ IF ldepth[t] # 0
       THEN /\ entrants' = Append(entrants, lchan[t])
            /\ UNCHANGED << chan, lchan, enters >>
       ELSE LET c == ChanId(t, enters[t] + 1) IN
            /\ chan' = [chan EXCEPT ![c] = NewChannel]
            /\ lchan' = [lchan EXCEPT ![t] = c]
            /\ entrants' = Append(entrants, c)
            /\ enters' = [enters EXCEPT ![t] = @ + 1]
EnterUpTo(t, cap) ==
    /\ ldepth[t] < cap
    /\ ldepth[t] = 0 => enters[t] < MaxEnters
    /\ ldepth' = [ldepth EXCEPT ![t] = @ + 1]
    /\ IF ldepth[t] # 0
       THEN UNCHANGED << chan, lchan, entrants, enters >>
       ELSE LET c == ChanId(t, enters[t] + 1) IN
            /\ chan' = [chan EXCEPT ![c] = NewChannel]
            /\ lchan' = [lchan EXCEPT ![t] = c]
            /\ entrants' = Append(entrants, c)
            /\ enters' = [enters EXCEPT ![t] = @ + 1]

Enter(t) == EnterUpTo(t, MaxDepth)

\* The critical section of handshake(): what it leaves in the channel and in
\* the thread's local state.  An acknowledged handshake with request_infants
\* set and a non-empty channel queue fails the assert.
HandshakeAssertFails(t) ==
    LET c == lchan[t] IN
    chan[c].pending /\ chan[c].request_infants /\ chan[c].infants # << >>

HandshakeChannel(t) ==
    LET c == lchan[t] IN
    IF ~chan[c].pending THEN chan[c]
    ELSE [chan[c] EXCEPT
            !.dirty = ldirty[t],
            !.infants = IF chan[c].request_infants THEN lalloc[t] ELSE @,
            !.request_infants = FALSE,
            !.pending = FALSE]

\* A broken handshake that keeps the local allocations.
HandshakeKeepsAllocations(t) == lalloc[t]

HandshakeAllocations(t) ==
    LET c == lchan[t] IN
    IF chan[c].pending /\ chan[c].request_infants THEN chan[c].infants
    ELSE lalloc[t]

\* The critical section of leave(), for the outermost call.
LeaveChannelKeepsQueue(t) ==
    LET c == lchan[t] IN
    [chan[c] EXCEPT
        !.pending = FALSE,
        !.abandoned = TRUE,
        !.dirty = ldirty[t],
        !.infants = IF @ = << >> THEN lalloc[t] ELSE @,
        !.request_infants = FALSE]
LeaveChannel(t) ==
    LET c == lchan[t] IN
    [chan[c] EXCEPT
        !.pending = FALSE,
        !.abandoned = TRUE,
        !.dirty = ldirty[t],
        !.infants = IF @ = << >> THEN lalloc[t] ELSE @ \o lalloc[t],
        !.request_infants = FALSE]

----------------------------------------------------------------------------
(* Mutators.  A mutator works on the pointers it holds: one raw pointer    *)
(* (reg), its registered roots and the global roots.  It drops the raw     *)
(* pointer at every handshake and pops its roots before its outermost      *)
(* leave.                                                                   *)

Acc(m) == ({reg[m]} \cup Range(lroots[m]) \cup groots) \ {Null}

Entered(m) == ldepth[m] > 0
Ready(m) == ~aborted /\ mpc[m] = "idle" /\ Entered(m)
Works(m) == Ready(m) /\ ops[m] < MaxOps
Counted(m) == ops' = [ops EXCEPT ![m] = @ + 1]

\* notify_all on a channel's condition variable wakes the collector when it
\* is blocked in wait() on that channel.
NotifiedLost(c) == cwaiting
Notified(c) ==
    IF cwaiting /\ mutators2 # << >> /\ Last(mutators2) = c THEN FALSE ELSE cwaiting

MEnter(m) ==
    /\ ~aborted /\ mpc[m] = "idle"
    /\ UNCHANGED ctVars
    /\ Enter(m)
    /\ UNCHANGED << gwhite, galloc, groots, ldirty, lalloc, lroots, heapVars,
                    collVars, mutVars, aborted, ghostVars >>

MLeave(m) ==
    /\ Ready(m)
    /\ UNCHANGED ctVars
    /\ ldepth[m] = 1 => lroots[m] = << >>
    /\ ldepth' = [ldepth EXCEPT ![m] = @ - 1]
    /\ IF ldepth[m] # 1
       THEN UNCHANGED << chan, ldirty, lalloc, lchan, mpc, reg, owed, late >>
       ELSE LET c == lchan[m] IN
            /\ chan' = [chan EXCEPT ![c] = LeaveChannel(m)]
            /\ late' = [late EXCEPT ![m] = {}]
            /\ owed' = [owed EXCEPT ![c] = @ \/ ldirty[m]]
            /\ ldirty' = [ldirty EXCEPT ![m] = FALSE]
            /\ lalloc' = [lalloc EXCEPT ![m] = << >>]
            /\ reg' = [reg EXCEPT ![m] = Null]
            /\ IF chan[c].pending
               THEN /\ mpc' = [mpc EXCEPT ![m] = "leave_notify"]
                    /\ UNCHANGED lchan
               ELSE /\ lchan' = [lchan EXCEPT ![m] = Null]
                    /\ UNCHANGED mpc
    /\ UNCHANGED << globalVars, lroots, enters, heapVars, collVars, tmp, ops,
                    aborted, rounddirt,
                    rescans, flipwhite >>

MLeaveNotify(m) ==
    /\ ~aborted /\ mpc[m] = "leave_notify"
    /\ UNCHANGED ctVars
    /\ cwaiting' = Notified(lchan[m])
    /\ lchan' = [lchan EXCEPT ![m] = Null]
    /\ mpc' = [mpc EXCEPT ![m] = "idle"]
    /\ UNCHANGED << globalVars, chan, ldirty, lalloc, lroots, ldepth, enters,
                    heapVars, cpc, round, cycle, white, black, wwhite, mutators,
                    mutators2, objects, stack, idx, first, reg, tmp, ops,
                    aborted, ghostVars >>

MHandshake(m) ==
    /\ Ready(m)
    /\ UNCHANGED ctVars
    /\ LET c == lchan[m] IN
       IF HandshakeAssertFails(m)
       THEN /\ aborted' = TRUE
            /\ UNCHANGED << chan, ldirty, lalloc, mpc, reg, owed, late >>
       ELSE /\ chan' = [chan EXCEPT ![c] = HandshakeChannel(m)]
            /\ lalloc' = [lalloc EXCEPT ![m] = HandshakeAllocations(m)]
            /\ ldirty' = [ldirty EXCEPT ![m] = IF chan[c].pending THEN FALSE ELSE @]
            /\ owed' = [owed EXCEPT ![c] = @ \/ (chan[c].pending /\ ldirty[m])]
            /\ late' = [late EXCEPT ![m] = IF chan[c].pending THEN {} ELSE @]
            /\ reg' = [reg EXCEPT ![m] = Null]
            /\ mpc' = [mpc EXCEPT ![m] = IF chan[c].pending THEN "hs_finish" ELSE "idle"]
            /\ UNCHANGED aborted
    /\ UNCHANGED << globalVars, lroots, lchan, ldepth, enters, heapVars,
                    collVars, tmp, ops, rounddirt,
                    rescans, flipwhite >>

MHandshakeFinish(m) ==
    /\ ~aborted /\ mpc[m] = "hs_finish"
    /\ UNCHANGED ctVars
    /\ cwaiting' = Notified(lchan[m])
    /\ color' = ShadedAll(color, lroots[m])
    /\ ldirty' = [ldirty EXCEPT ![m] = @ \/ AnyShadeHits(color, lroots[m])]
    /\ mpc' = [mpc EXCEPT ![m] = "idle"]
    /\ UNCHANGED << globalVars, chan, lalloc, lroots, lchan, ldepth, enters,
                    field, status, cpc, round, cycle, white, black, wwhite,
                    mutators, mutators2, objects, stack, idx, first,
                    reg, tmp, ops, aborted, ghostVars >>

\* Object::Object: the colour is the allocation colour read at construction;
\* the object goes to the back of the creator's local allocations.  A pointer
\* field given to the constructor is initialised without the barrier.
NewColorWhite == gwhite
NewColor == galloc

MAlloc(m) ==
    /\ Works(m) /\ Counted(m)
    /\ UNCHANGED ctVars
    /\ \E o \in Objs, init \in {Null, reg[m]} :
        /\ status[o] = "free"
        /\ \A p \in Objs : status[p] = "free" => o <= p
        /\ color' = [color EXCEPT ![o] = NewColor]
        /\ field' = [field EXCEPT ![o] = init]
        /\ status' = [status EXCEPT ![o] = "live"]
        /\ lalloc' = [lalloc EXCEPT ![m] = Append(@, o)]
        /\ reg' = [reg EXCEPT ![m] = o]
        /\ late' = [late EXCEPT ![m] = IF init # Null THEN @ \cup {o} ELSE @]
    /\ UNCHANGED << globalVars, chan, ldirty, lroots, lchan, ldepth, enters,
                    collVars, mpc, tmp, aborted, owed, rounddirt,
                    rescans, flipwhite >>

\* AtomicStrong::load, or a copy of a registered root.
MLoad(m) ==
    /\ Works(m) /\ Counted(m)
    /\ UNCHANGED ctVars
    /\ \E v \in (Range(lroots[m]) \cup groots \cup {field[x] : x \in Acc(m)}) :
        /\ v # reg[m]
        /\ reg' = [reg EXCEPT ![m] = v]
    /\ UNCHANGED << globalVars, chan, localVars, heapVars, collVars, mpc, tmp,
                    aborted, ghostVars >>

\* push / pop of a per-thread root; registration of a global root, which
\* installs a new referent and so shades it first.
MPushRoot(m) ==
    /\ Works(m) /\ Counted(m)
    /\ UNCHANGED ctVars
    /\ reg[m] # Null
    /\ Len(lroots[m]) < MaxRoots
    /\ lroots' = [lroots EXCEPT ![m] = Append(@, reg[m])]
    /\ UNCHANGED << globalVars, chan, ldirty, lalloc, lchan, ldepth, enters,
                    heapVars, collVars, mpc, reg, tmp, aborted, ghostVars >>

MPopRoot(m) ==
    /\ Works(m) /\ Counted(m)
    /\ UNCHANGED ctVars
    /\ lroots[m] # << >>
    /\ lroots' = [lroots EXCEPT ![m] = Front(@)]
    /\ UNCHANGED << globalVars, chan, ldirty, lalloc, lchan, ldepth, enters,
                    heapVars, collVars, mpc, reg, tmp, aborted, ghostVars >>

MPushGlobalRoot(m) ==
    /\ Works(m) /\ Counted(m)
    /\ UNCHANGED ctVars
    /\ reg[m] # Null
    /\ reg[m] \notin groots
    /\ Cardinality(groots) < MaxGlobalRoots
    /\ color' = Shaded(color, reg[m])
    /\ ldirty' = [ldirty EXCEPT ![m] = @ \/ ShadeHits(color, reg[m])]
    /\ groots' = groots \cup {reg[m]}
    /\ UNCHANGED << gwhite, galloc, entrants, chan, lalloc, lroots, lchan,
                    ldepth, enters, field, status, collVars, mpc, reg, tmp,
                    aborted, ghostVars >>

\* AtomicStrong::store and AtomicStrong::exchange, statement by statement;
\* store is exchange with the returned pointer dropped.
MStoreShade(m) ==
    /\ Works(m) /\ Counted(m)
    /\ UNCHANGED ctVars
    /\ \E x \in Acc(m), d \in Acc(m) \cup {Null} :
        /\ color' = Shaded(color, d)
        /\ ldirty' = [ldirty EXCEPT ![m] = @ \/ ShadeHits(color, d)]
        /\ tmp' = [tmp EXCEPT ![m] = [x |-> x, d |-> d, e |-> Null]]
        /\ mpc' = [mpc EXCEPT ![m] = "store_exchange"]
    /\ UNCHANGED << globalVars, chan, lalloc, lroots, lchan, ldepth, enters,
                    field, status, collVars, reg, aborted, ghostVars >>

MStoreExchange(m) ==
    /\ ~aborted /\ mpc[m] = "store_exchange"
    /\ UNCHANGED ctVars
    /\ field' = [field EXCEPT ![tmp[m].x] = tmp[m].d]
    /\ tmp' = [tmp EXCEPT ![m].e = field[tmp[m].x]]
    /\ mpc' = [mpc EXCEPT ![m] = "store_shade"]
    /\ late' = [late EXCEPT ![m] = @ \cup {tmp[m].x}]
    /\ UNCHANGED << globalVars, chan, localVars, color, status, collVars, reg,
                    ops, aborted, owed, rounddirt,
                    rescans, flipwhite >>

MStoreFinish(m) ==
    /\ ~aborted /\ mpc[m] = "store_shade"
    /\ UNCHANGED ctVars
    /\ color' = Shaded(color, tmp[m].e)
    /\ ldirty' = [ldirty EXCEPT ![m] = @ \/ ShadeHits(color, tmp[m].e)]
    /\ \E r \in {reg[m], tmp[m].e} : reg' = [reg EXCEPT ![m] = r]
    /\ tmp' = [tmp EXCEPT ![m] = NoTmp]
    /\ mpc' = [mpc EXCEPT ![m] = "idle"]
    /\ UNCHANGED << globalVars, chan, lalloc, lroots, lchan, ldepth, enters,
                    field, status, collVars, ops, aborted, ghostVars >>

\* AtomicStrong::compare_exchange_strong / _weak: the exchange, then on
\* success shade(expected) and shade(desired).  A failed exchange writes the
\* value it saw into expected (here the raw pointer); only the weak form may
\* fail although the slot holds expected.
MCas(m) ==
    /\ Works(m) /\ Counted(m)
    /\ UNCHANGED ctVars
    /\ \E x \in Acc(m), e \in Acc(m) \cup {Null}, d \in Acc(m) \cup {Null},
          fail \in BOOLEAN :
        IF field[x] = e /\ ~fail
        THEN /\ field' = [field EXCEPT ![x] = d]
             /\ tmp' = [tmp EXCEPT ![m] = [x |-> x, d |-> d, e |-> e]]
             /\ mpc' = [mpc EXCEPT ![m] = "cas_shade_expected"]
             /\ late' = [late EXCEPT ![m] = @ \cup {x}]
             /\ UNCHANGED reg
        ELSE /\ reg' = [reg EXCEPT ![m] = field[x]]
             /\ UNCHANGED << field, tmp, mpc, late >>
    /\ UNCHANGED << globalVars, chan, localVars, color, status, collVars,
                    aborted, owed, rounddirt,
                    rescans, flipwhite >>

MCasShadeExpected(m) ==
    /\ ~aborted /\ mpc[m] = "cas_shade_expected"
    /\ UNCHANGED ctVars
    /\ color' = Shaded(color, tmp[m].e)
    /\ ldirty' = [ldirty EXCEPT ![m] = @ \/ ShadeHits(color, tmp[m].e)]
    /\ mpc' = [mpc EXCEPT ![m] = "cas_shade_desired"]
    /\ UNCHANGED << globalVars, chan, lalloc, lroots, lchan, ldepth, enters,
                    field, status, collVars, reg, tmp, ops, aborted, ghostVars >>

MCasShadeDesired(m) ==
    /\ ~aborted /\ mpc[m] = "cas_shade_desired"
    /\ UNCHANGED ctVars
    /\ color' = Shaded(color, tmp[m].d)
    /\ ldirty' = [ldirty EXCEPT ![m] = @ \/ ShadeHits(color, tmp[m].d)]
    /\ tmp' = [tmp EXCEPT ![m] = NoTmp]
    /\ mpc' = [mpc EXCEPT ![m] = "idle"]
    /\ UNCHANGED << globalVars, chan, lalloc, lroots, lchan, ldepth, enters,
                    field, status, collVars, reg, ops, aborted, ghostVars >>

\* Dereferencing a pointer to a deleted object may end the process.
MCrash(m) ==
    /\ Ready(m)
    /\ UNCHANGED ctVars
    /\ \E x \in Acc(m) : status[x] = "deleted"
    /\ aborted' = TRUE
    /\ UNCHANGED << globalVars, chan, localVars, heapVars, collVars, mutVars,
                    ghostVars >>

----------------------------------------------------------------------------
(* The collector: collect() of gc.cpp.                                     *)

\* ScanContext::push(object): compare-exchange from _white to _white ^ 2;
\* the object goes on the scan stack when the exchange succeeded.
PushBlack == Xor(wwhite, PushMask)
PushHits(col, o) == o # Null /\ col[o] = wwhite
Pushed(col, o) == IF PushHits(col, o) THEN [col EXCEPT ![o] = PushBlack] ELSE col

\* The colour ScanContextPrivate::process asserts of every popped object.
ProcessBlack == Xor(wwhite, CollectorMask)

\* The default Object::sweep: delete exactly when the colour is the sweep
\* context's white.
SweepDeletes(o) == color[o] = white

\* gc::enter(), then white / black / working are set up.
CEnter ==
    /\ ~aborted /\ cpc = "enter"
    /\ UNCHANGED ctVars
    /\ Enter(Collector)
    /\ white' = gwhite
    /\ black' = Xor(gwhite, CollectorMask)
    /\ wwhite' = gwhite
    /\ cpc' = "flip"
    /\ UNCHANGED << gwhite, galloc, groots, ldirty, lalloc, lroots, heapVars,
                    round, cycle, mutators, mutators2, objects, stack, idx,
                    first, cwaiting, mutVars, aborted, ghostVars >>

\* Top of the loop: the two asserts, then global.alloc := black.
\* A broken flip that stores the collector's white again.
AllocStaysWhite == white

\* global.alloc.store(black, ...)
AllocAfterFlip == black

CFlip ==
    /\ ~aborted /\ cpc = "flip"
    /\ UNCHANGED ctVars
    /\ IF gwhite # white \/ galloc # white
       THEN /\ aborted' = TRUE
            /\ UNCHANGED << galloc, round, cpc, rescans, flipwhite >>
       ELSE /\ galloc' = AllocAfterFlip
            /\ round' = "flip"
            /\ cpc' = "accept"
            /\ rescans' = 0
            /\ flipwhite' = Cardinality({o \in Objs : status[o] = "live" /\ color[o] = white})
            /\ UNCHANGED aborted
    /\ UNCHANGED << gwhite, entrants, groots, chan, localVars, heapVars, cycle,
                    white, black, wwhite, mutators, mutators2, objects, stack,
                    idx, first, cwaiting, mutVars, owed, rounddirt, late >>

\* accept_entrants(): blocks while there is neither a mutator nor an object.
CAccept ==
    /\ ~aborted /\ cpc = "accept"
    /\ UNCHANGED ctVars
    /\ mutators \o entrants # << >> \/ objects # << >>
    /\ mutators' = mutators \o entrants
    /\ entrants' = << >>
    /\ cpc' = IF mutators' # << >> THEN "request"
              ELSE IF round = "flip" THEN "roots" ELSE "shake"
    /\ UNCHANGED << gwhite, galloc, groots, chan, localVars, heapVars, round,
                    cycle, white, black, wwhite, mutators2, objects, stack, idx,
                    first, cwaiting, mutVars, aborted, ghostVars >>

\* if (channel->abandoned): the collector's test under the channel's mutex.
AbandonedIgnored(c) == FALSE
Abandoned(c) == chan[c].abandoned

\* One iteration of a request loop, on the channel at the back of mutators.
CRequest ==
    /\ ~aborted /\ cpc = "request"
    /\ UNCHANGED ctVars
    /\ LET c == Last(mutators) IN
       IF chan[c].pending
          \/ (round = "remap" /\ ~Abandoned(c) /\ chan[c].infants # << >>)
       THEN /\ aborted' = TRUE
            /\ UNCHANGED << chan, ldirty, mutators, mutators2, objects, cpc,
                            ghostVars >>
       ELSE /\ mutators' = Front(mutators)
            /\ cpc' = IF mutators' # << >> THEN "request"
                      ELSE IF round = "flip" THEN "roots" ELSE "shake"
            /\ UNCHANGED aborted
            /\ IF ~Abandoned(c)
               THEN /\ chan' = [chan EXCEPT
                                  ![c].pending = TRUE,
                                  ![c].request_infants =
                                      IF round = "flip" THEN TRUE ELSE @]
                    /\ mutators2' = Append(mutators2, c)
                    /\ UNCHANGED << ldirty, objects, ghostVars >>
               ELSE /\ ldirty' = [ldirty EXCEPT ![Collector] =
                                    @ \/ (round = "trace" /\ chan[c].dirty)]
                    /\ objects' = objects \o chan[c].infants
                    /\ chan' = [chan EXCEPT ![c] = NoChannel]
                    /\ rounddirt' = (rounddirt \/ (round = "trace" /\ owed[c]))
                    /\ UNCHANGED << rescans, flipwhite >>
                    /\ owed' = [owed EXCEPT ![c] = FALSE]
                    /\ UNCHANGED << mutators2, late >>
    /\ UNCHANGED << globalVars, lalloc, lroots, lchan, ldepth, enters, heapVars,
                    round, cycle, white, black, wwhite, stack, idx, first,
                    cwaiting, mutVars >>

\* Step 1 only: shade the global roots.
CRoots ==
    /\ ~aborted /\ cpc = "roots"
    /\ UNCHANGED ctVars
    /\ color' = ShadedAll(color, SeqOfSet(groots))
    /\ ldirty' = [ldirty EXCEPT ![Collector] =
                    @ \/ AnyShadeHits(color, SeqOfSet(groots))]
    /\ cpc' = "shake"
    /\ UNCHANGED << globalVars, chan, lalloc, lroots, lchan, ldepth, enters,
                    field, status, round, cycle, white, black, wwhite, mutators,
                    mutators2, objects, stack, idx, first, cwaiting, mutVars,
                    aborted, ghostVars >>

\* The collector's own gc::handshake().
CShake ==
    /\ ~aborted /\ cpc = "shake"
    /\ UNCHANGED ctVars
    /\ LET c == lchan[Collector] IN
       IF HandshakeAssertFails(Collector)
       THEN /\ aborted' = TRUE
            /\ UNCHANGED << chan, ldirty, lalloc, color, cpc, owed >>
       ELSE /\ chan' = [chan EXCEPT ![c] = HandshakeChannel(Collector)]
            /\ lalloc' = [lalloc EXCEPT ![Collector] = HandshakeAllocations(Collector)]
            /\ owed' = [owed EXCEPT ![c] = @ \/ (chan[c].pending /\ ldirty[Collector])]
            /\ color' = IF chan[c].pending
                        THEN ShadedAll(color, lroots[Collector]) ELSE color
            /\ ldirty' = [ldirty EXCEPT ![Collector] =
                            IF chan[c].pending
                            THEN AnyShadeHits(color, lroots[Collector]) ELSE @]
            /\ cpc' = "receive"
            /\ UNCHANGED aborted
    /\ UNCHANGED << globalVars, lroots, lchan, ldepth, enters, field, status,
                    round, cycle, white, black, wwhite, mutators, mutators2,
                    objects, stack, idx, first, cwaiting, mutVars, rounddirt,
                    rescans, flipwhite,
                    late >>

\* while (!channel->abandoned && channel->pending) wait: the exit condition.
WaitOverNoCheck(c) == TRUE
WaitOver(c) == chan[c].abandoned \/ ~chan[c].pending

\* A receive loop finds the channel at the back of mutators2 still pending:
\* the collector blocks in condition_variable.wait.
CReceiveWait ==
    /\ ~aborted /\ cpc = "receive" /\ ~cwaiting
    /\ UNCHANGED ctVars
    /\ ~WaitOver(Last(mutators2))
    /\ cwaiting' = TRUE
    /\ UNCHANGED << globalVars, chan, localVars, heapVars, cpc, round, cycle,
                    white, black, wwhite, mutators, mutators2, objects, stack,
                    idx, first, mutVars, aborted, ghostVars >>

\* One iteration of a receive loop whose wait is over, and, after the last
\* one, the statements up to the next labelled step.
CReceive ==
    /\ ~aborted /\ cpc = "receive" /\ ~cwaiting
    /\ UNCHANGED ctVars
    /\ LET c == Last(mutators2)
           gone == Abandoned(c)
           take == round = "flip" \/ gone
           dirt == ldirty[Collector] \/ (round # "flip" /\ chan[c].dirty)
           rest == Front(mutators2)
       IN
       /\ WaitOver(c)
       /\ mutators2' = rest
       /\ objects' = IF take THEN objects \o chan[c].infants ELSE objects
       /\ chan' = [chan EXCEPT ![c] =
                     IF gone THEN NoChannel
                     ELSE [@ EXCEPT !.dirty = FALSE,
                                    !.infants = IF take THEN << >> ELSE @]]
       /\ mutators' = IF gone THEN mutators ELSE Append(mutators, c)
       /\ owed' = [owed EXCEPT ![c] = FALSE]
       /\ rounddirt' = (rounddirt \/ (round = "trace" /\ owed[c]))
       /\ IF rest = << >> /\ round = "trace"
          THEN IF dirt
               THEN /\ rescans' = IF rescans <= NObj THEN rescans + 1 ELSE rescans
                    /\ UNCHANGED flipwhite
               ELSE /\ rescans' = 0
                    /\ flipwhite' = 0
          ELSE UNCHANGED << rescans, flipwhite >>
       /\ IF rest # << >>
          THEN /\ ldirty' = [ldirty EXCEPT ![Collector] = dirt]
               /\ UNCHANGED << cpc, cycle, first >>
          ELSE IF round = "flip"
          THEN /\ ldirty' = [ldirty EXCEPT ![Collector] = dirt]
               /\ cpc' = "scanbegin"
               /\ UNCHANGED << cycle, first >>
          ELSE IF round = "trace"
          THEN /\ ldirty' = [ldirty EXCEPT ![Collector] = FALSE]
               /\ cpc' = IF dirt THEN "scanbegin" ELSE "sweep"
               /\ first' = 1
               /\ UNCHANGED cycle
          ELSE /\ ldirty' = [ldirty EXCEPT ![Collector] = dirt]
               /\ cpc' = IF cycle < MaxCycles THEN "flip" ELSE "done"
               /\ cycle' = IF cycle < MaxCycles THEN cycle + 1 ELSE cycle
               /\ UNCHANGED first
    /\ UNCHANGED << globalVars, lalloc, lroots, lchan, ldepth, enters, heapVars,
                    round, white, black, wwhite, stack, idx, cwaiting, mutVars,
                    aborted, late >>

\* do { local.dirty = false; for (Object* object : objects) ...
CScanBegin ==
    /\ ~aborted /\ cpc = "scanbegin"
    /\ UNCHANGED ctVars
    /\ ldirty' = [ldirty EXCEPT ![Collector] = FALSE]
    /\ idx' = 1
    /\ cpc' = "scan"
    /\ UNCHANGED << globalVars, chan, lalloc, lroots, lchan, ldepth, enters,
                    heapVars, round, cycle, white, black, wwhite, mutators,
                    mutators2, objects, stack, first, cwaiting, mutVars,
                    aborted, ghostVars >>

\* One object of the scan pass: the compare-exchange GRAY -> black and the
\* classification of the colour it saw.
CScan ==
    /\ ~aborted /\ cpc = "scan" /\ idx <= Len(objects)
    /\ UNCHANGED ctVars
    /\ LET o == objects[idx]
           expected == color[o]
       IN
       /\ color' = IF expected = GRAY THEN [color EXCEPT ![o] = black] ELSE color
       /\ IF expected = black
          THEN /\ idx' = idx + 1
               /\ UNCHANGED << cpc, aborted >>
          ELSE IF expected = GRAY
          THEN /\ cpc' = "scanobject"
               /\ UNCHANGED << idx, aborted >>
          ELSE IF expected \in {white, RED}
          THEN /\ idx' = idx + 1
               /\ UNCHANGED << cpc, aborted >>
          ELSE /\ aborted' = TRUE
               /\ UNCHANGED << idx, cpc >>
    /\ UNCHANGED << globalVars, chan, localVars, field, status, round, cycle,
                    white, black, wwhite, mutators, mutators2, objects, stack,
                    first, cwaiting, mutVars, ghostVars >>

\* object->scan(working) for the object found GRAY: push of its strong field;
\* then working.process() when something was pushed.
CScanObject ==
    /\ ~aborted /\ cpc = "scanobject"
    /\ UNCHANGED ctVars
    /\ LET o == objects[idx] IN
       /\ color' = Pushed(color, field[o])
       /\ IF PushHits(color, field[o])
          THEN /\ stack' = Append(stack, field[o])
               /\ cpc' = "process"
               /\ UNCHANGED idx
          ELSE /\ idx' = idx + 1
               /\ cpc' = "scan"
               /\ UNCHANGED stack
    /\ UNCHANGED << globalVars, chan, localVars, field, status, round, cycle,
                    white, black, wwhite, mutators, mutators2, objects, first,
                    cwaiting, mutVars, aborted, ghostVars >>

\* ScanContextPrivate::process: pop, assert the colour, scan.
CProcess ==
    /\ ~aborted /\ cpc = "process"
    /\ UNCHANGED ctVars
    /\ LET o == Last(stack)
           rest == Front(stack)
       IN
       IF color[o] # ProcessBlack
       THEN /\ aborted' = TRUE
            /\ UNCHANGED << color, stack, idx, cpc >>
       ELSE /\ color' = Pushed(color, field[o])
            /\ stack' = IF PushHits(color, field[o])
                        THEN Append(rest, field[o]) ELSE rest
            /\ cpc' = IF stack' = << >> THEN "scan" ELSE "process"
            /\ idx' = IF stack' = << >> THEN idx + 1 ELSE idx
            /\ UNCHANGED aborted
    /\ UNCHANGED << globalVars, chan, localVars, field, status, round, cycle,
                    white, black, wwhite, mutators, mutators2, objects, first,
                    cwaiting, mutVars, ghostVars >>

\* } while (local.dirty); then the trace handshake round begins.
CScanEnd ==
    /\ ~aborted /\ cpc = "scan" /\ idx > Len(objects)
    /\ UNCHANGED ctVars
    /\ IF ldirty[Collector]
       THEN /\ cpc' = "scanbegin"
            /\ UNCHANGED << round, rounddirt >>
       ELSE /\ cpc' = "accept"
            /\ round' = "trace"
            /\ rounddirt' = FALSE
    /\ UNCHANGED << globalVars, chan, localVars, heapVars, cycle, white, black,
                    wwhite, mutators, mutators2, objects, stack, idx, first,
                    cwaiting, mutVars, aborted, owed, late, rescans, flipwhite >>

\* One object of the sweep: deleted and swapped out of the list, or kept.
SwapRemoved(s, i) ==
    [j \in 1..(Len(s) - 1) |-> IF j = i THEN s[Len(s)] ELSE s[j]]

CSweep ==
    /\ ~aborted /\ cpc = "sweep" /\ first <= Len(objects)
    /\ UNCHANGED ctVars
    /\ LET o == objects[first] IN
       IF SweepDeletes(o)
       THEN /\ status' = [status EXCEPT ![o] = "deleted"]
            /\ objects' = SwapRemoved(objects, first)
            /\ UNCHANGED first
       ELSE /\ first' = first + 1
            /\ UNCHANGED << status, objects >>
    /\ UNCHANGED << globalVars, chan, localVars, color, field, cpc, round,
                    cycle, white, black, wwhite, mutators, mutators2, stack,
                    idx, cwaiting, mutVars, aborted, ghostVars >>

\* The remap: swap(white, black), publish white, then the remap round.
CRemap ==
    /\ ~aborted /\ cpc = "sweep" /\ first > Len(objects)
    /\ UNCHANGED ctVars
    /\ white' = black
    /\ black' = white
    /\ gwhite' = black
    /\ wwhite' = black
    /\ round' = "remap"
    /\ cpc' = "accept"
    /\ UNCHANGED << galloc, entrants, groots, chan, localVars, heapVars, cycle,
                    mutators, mutators2, objects, stack, idx, first, cwaiting,
                    mutVars, aborted, ghostVars >>

----------------------------------------------------------------------------
CollectorStep ==
    \/ CEnter \/ CFlip \/ CAccept \/ CRequest \/ CRoots \/ CShake
    \/ CReceiveWait \/ CReceive \/ CScanBegin \/ CScan \/ CScanObject
    \/ CProcess \/ CScanEnd
    \/ CSweep \/ CRemap

MutatorStep(m) ==
    \/ MEnter(m) \/ MLeave(m) \/ MLeaveNotify(m)
    \/ MHandshake(m) \/ MHandshakeFinish(m)
    \/ MAlloc(m) \/ MLoad(m) \/ MPushRoot(m) \/ MPopRoot(m) \/ MPushGlobalRoot(m)
    \/ MStoreShade(m) \/ MStoreExchange(m) \/ MStoreFinish(m)
    \/ MCas(m) \/ MCasShadeExpected(m) \/ MCasShadeDesired(m)
    \/ MCrash(m)

Next == CollectorStep \/ \E m \in Mutators : MutatorStep(m)

Spec == Init /\ [][Next]_vars

\* Fair scheduling: the collector thread keeps running, and a mutator
\* finishes the operation it is in and keeps calling handshake().
MutatorProgress(m) ==
    \/ MHandshake(m) \/ MHandshakeFinish(m) \/ MLeaveNotify(m)
    \/ MStoreExchange(m) \/ MStoreFinish(m)
    \/ MCasShadeExpected(m) \/ MCasShadeDesired(m)

\* The collector thread has a step to take: it is not blocked in a
\* condition_variable wait and has not returned.  This is
\* ENABLED <<CollectorStep>>_vars written out.
CollCanStep ==
    /\ ~aborted
    /\ \/ cpc \in {"enter", "flip", "request", "roots", "shake", "scanbegin",
                    "scan", "scanobject", "process", "sweep"}
       \/ cpc = "accept" /\ (mutators \o entrants # << >> \/ objects # << >>)
       \/ cpc = "receive" /\ ~cwaiting

\* Mutator m is inside an operation, or a call of handshake() would change
\* something.  This is ENABLED <<MutatorProgress(m)>>_vars written out.
MutCanProgress(m) ==
    /\ ~aborted
    /\ \/ mpc[m] \in {"hs_finish", "leave_notify", "store_exchange",
                       "store_shade", "cas_shade_expected", "cas_shade_desired"}
       \/ mpc[m] = "idle" /\ Entered(m)
             /\ (reg[m] # Null \/ chan[lchan[m]].pending \/ HandshakeAssertFails(m))

\* The two predicates are the enabling conditions they stand for.
CanStepIsEnabled ==
    /\ CollCanStep <=> ENABLED <<CollectorStep>>_vars
    /\ \A m \in Mutators : MutCanProgress(m) <=> ENABLED <<MutatorProgress(m)>>_vars

\* Weak fairness of CollectorStep and of each MutatorProgress(m).
Fairness ==
    /\ []<>(~CollCanStep) \/ []<><<CollectorStep>>_vars
    /\ \A m \in Mutators :
          []<>(~MutCanProgress(m)) \/ []<><<MutatorProgress(m)>>_vars

FairSpec == Spec /\ Fairness

\* The same fairness in the notation of weak fairness.
WeakFairness ==
    /\ WF_vars(CollectorStep)
    /\ \A m \in Mutators : WF_vars(MutatorProgress(m))

WfSpec == Spec /\ WeakFairness

----------------------------------------------------------------------------
(* Reachability through strong pointer fields.                             *)

RootSet ==
    (groots \cup UNION {Range(lroots[m]) : m \in {n \in Mutators : Entered(n)}})
        \ {Null}

RECURSIVE Closure(_)
Closure(S) ==
    LET T == S \cup ({field[o] : o \in S} \ {Null})
    IN IF T = S THEN S ELSE Closure(T)

Reachable == Closure(RootSet)

Destroyed(o) == status[o] # "deleted" /\ status'[o] = "deleted"

\* C1: an object is destroyed only by the collector in its sweep step, and
\* never while it is reachable through strong fields from a global root or
\* from a root of a mutator that is still entered.
C1_DestroyedOnlyUnreachableBySweep ==
    [][\A o \in Objs : Destroyed(o) => (cpc = "sweep" /\ o \notin Reachable)]_vars

----------------------------------------------------------------------------
(* The trace loop.  owed[c] records that the thread of channel c published  *)
(* a dirty flag into c that the collector has not yet received; rounddirt   *)
(* records that such a report was outstanding on a channel the collector    *)
(* received or adopted in the current trace round.                          *)

SweepBegins == cpc # "sweep" /\ cpc' = "sweep"

\* C2: every object the default sweep deletes is WHITE when it is swept, and
\* a sweep begins only after a scan pass followed by a handshake round in
\* which every mutator, every abandoned channel and the collector reported
\* clean; a dirty report makes the collector scan again.
C2_SweepWhiteAfterCleanRound ==
    [][/\ \A o \in Objs : Destroyed(o) => color[o] = white
       /\ SweepBegins => (round = "trace" /\ ~rounddirt')]_vars

----------------------------------------------------------------------------
(* The tricolor invariant.  late[m] holds the objects whose strong field    *)
(* mutator m has written (constructor, store, exchange, compare-exchange)   *)
(* since its last acknowledged handshake: the fields whose last write did   *)
(* not complete before the handshake of the round.                          *)

RoundCompletes == cpc = "receive" /\ cpc' # "receive"

LateFields == UNION {late[m] : m \in Mutators}

BlackToWhite(b) ==
    /\ status[b] = "live"
    /\ color[b] = black
    /\ field[b] # Null
    /\ status[field[b]] = "live"
    /\ color[field[b]] = white
    /\ b \notin LateFields

\* C3: after every completed handshake round no BLACK object holds, in a
\* strong field whose last write completed before that handshake, a pointer
\* to an object that is WHITE under the current encoding.
C3_TricolorAfterRound ==
    [][RoundCompletes => \A b \in Objs : ~BlackToWhite(b)']_vars

----------------------------------------------------------------------------
(* The write barrier.                                                       *)

StoreReturns(m) == mpc[m] = "store_shade" /\ mpc'[m] = "idle"

CasShadesExpected(m) == mpc[m] = "cas_shade_expected" /\ mpc'[m] # mpc[m]
CasShadesDesired(m) == mpc[m] = "cas_shade_desired" /\ mpc'[m] # mpc[m]

\* A step of m that starts and ends a barrier operation without installing
\* anything: the failed compare-exchange, which only reports what it saw.
CasFailed(m) ==
    /\ mpc[m] = "idle" /\ mpc'[m] = "idle"
    /\ ops'[m] = ops[m] + 1
    /\ \E x \in Acc(m) : reg'[m] = field[x]
    /\ lalloc' = lalloc /\ lroots' = lroots /\ groots' = groots

NotWhiteAfter(p) == p # Null => color'[p] # gwhite'

\* C4: store and exchange shade the incoming referent before the exchange
\* and the evicted one after it, so that neither is WHITE when the operation
\* returns; a compare-exchange shades expected and desired exactly when it
\* succeeded; a failed one shades nothing and leaves the slot unchanged.
C4_WriteBarrier ==
    [][\A m \in Mutators :
        /\ StoreReturns(m) => NotWhiteAfter(tmp[m].d) /\ NotWhiteAfter(tmp[m].e)
        /\ CasShadesExpected(m) => color' = Shaded(color, tmp[m].e)
        /\ CasShadesDesired(m) => color' = Shaded(color, tmp[m].d)
        /\ CasFailed(m) => color' = color /\ field' = field /\ ldirty' = ldirty
      ]_vars

----------------------------------------------------------------------------
(* Allocation colour.                                                       *)

\* Mutator m has acknowledged the step-1 handshake of the current cycle, or
\* its channel was published after the step-1 accept of entrants; the colour
\* remap of the cycle has not happened yet.
CompletedStep1(m) ==
    LET c == lchan[m] IN
    /\ Entered(m)
    /\ \/ round = "trace"
       \/ round = "flip" /\ cpc \in {"scanbegin", "scan", "scanobject", "process"}
       \/ /\ round = "flip" /\ cpc \in {"request", "roots", "shake", "receive"}
          /\ \/ c \in Range(entrants)
             \/ c \in Range(mutators2) /\ ~chan[c].pending
             \/ c \in Range(mutators) /\ cpc \in {"roots", "shake", "receive"}

Constructs(m, o) ==
    status[o] = "free" /\ status'[o] = "live" /\ lalloc'[m] # lalloc[m]

StaysBlack(o) ==
    (cpc # "enter" /\ status[o] = "live" /\ color[o] = black /\ black' = black)
        => color'[o] = black

ScanStarts(o) ==
    \/ cpc = "scan" /\ cpc' = "scanobject" /\ objects[idx] = o
    \/ o \in Range(stack') /\ o \notin Range(stack)

\* C5: an object constructed by a mutator that has completed the step-1
\* handshake of the cycle (or entered after the step-1 accept) gets the
\* collector's current BLACK, keeps it until the remap, and is not scanned
\* in that cycle.
C5_AllocatedBlackNotScanned ==
    [][/\ \A m \in Mutators, o \in Objs :
            (CompletedStep1(m) /\ Constructs(m, o)) => color'[o] = black
       /\ \A o \in Objs : StaysBlack(o)
       /\ \A o \in Objs : (status[o] = "live" /\ color[o] = black) => ~ScanStarts(o)
      ]_vars

C5_Witness ==
    \E m \in Mutators, o \in Objs :
        /\ cycle = 2 /\ cpc = "sweep"
        /\ o \in Range(lalloc[m]) /\ status[o] = "live" /\ color[o] = black

----------------------------------------------------------------------------
(* Handshake rounds.                                                        *)

InRound == cpc \in {"request", "roots", "shake", "receive"}

\* The collector takes a channel off mutators2: its receive for that channel.
Receives(c) ==
    /\ mutators2 # << >> /\ Last(mutators2) = c
    /\ mutators2' = Front(mutators2)

\* Every raised pending flag belongs to a channel the collector requested in
\* the round in progress and has not received yet; the channel the collector
\* is about to request is not pending.
PendingOnlyInRound ==
    /\ \A c \in Chans :
          (chan[c].live /\ chan[c].pending /\ ~chan[c].abandoned)
              => (InRound /\ c \in Range(mutators2))
    /\ (cpc = "request" /\ mutators # << >>) => ~chan[Last(mutators)].pending

----------------------------------------------------------------------------
(* Handshake liveness.                                                      *)

\* The collector is blocked in wait() on channel c.
WaitsOn(c) == cwaiting /\ mutators2 # << >> /\ Last(mutators2) = c

\* A blocked collector is owed a wake-up: the channel is still pending, or
\* the thread that cleared pending has its notify_all still to do.
NoLostWakeup ==
    \A c \in Chans :
        WaitsOn(c) =>
            \/ chan[c].pending /\ ~chan[c].abandoned
            \/ \E m \in Mutators :
                  lchan[m] = c /\ mpc[m] \in {"hs_finish", "leave_notify"}

\* C7: under fair scheduling every handshake the collector requests (on a
\* mutator's channel or on its own) is eventually acknowledged or ended by
\* the mutator's leave, and the collector's wait on that channel's condition
\* variable ends: no wake-up is lost.
C7_HandshakeLiveness ==
    /\ []NoLostWakeup
    /\ \A c \in Chans :
          (chan[c].pending \/ WaitsOn(c))
              ~> ((~chan[c].pending /\ ~WaitsOn(c)) \/ aborted)

C7_Witness ==
    \E m \in Mutators :
        /\ mpc[m] = "hs_finish" /\ cwaiting
        /\ Last(mutators2) = lchan[m] /\ ~chan[lchan[m]].pending

----------------------------------------------------------------------------
(* Termination of the trace loop.  Until the trace loop of a cycle exits,   *)
(* rescans counts the trace rounds of the cycle that ended dirty and        *)
(* flipwhite is the number of objects that were WHITE when the cycle        *)
(* flipped the allocation colour.                                           *)

InTraceLoop ==
    \/ cpc \in {"scanbegin", "scan", "scanobject", "process"}
    \/ round = "trace" /\ InRound
    \/ round = "trace" /\ cpc = "accept"

\* C8: under fair scheduling, with mutators that keep handshaking, the trace
\* loop of every cycle terminates and the cycle reaches its sweep, and the
\* rescans forced by dirty reports in one cycle are at most the objects that
\* were WHITE when allocation flipped.
C8_TraceLoopTerminates ==
    /\ [](rescans <= flipwhite)
    /\ InTraceLoop ~> (cpc = "sweep")

----------------------------------------------------------------------------
(* Infant hand-off.                                                         *)

Occurrences(s, o) == Cardinality({i \in 1..Len(s) : s[i] = o})

\* How many places hold object o: the local allocation lists, the channels'
\* infants queues and the collector's objects list.  The collector's own
\* infants queue is filled and emptied inside one step.
Places(o) ==
    LET SumT[k \in 0..(NMut + 1)] ==
            IF k = 0 THEN 0 ELSE SumT[k - 1] + Occurrences(lalloc[k - 1], o)
        SumC[k \in 0..Cardinality(Chans)] ==
            IF k = 0 THEN 0 ELSE SumC[k - 1] + Occurrences(chan[k].infants, o)
    IN SumT[NMut + 1] + SumC[Cardinality(Chans)] + Occurrences(objects, o)

ExactlyOnePlace ==
    \A o \in Objs :
        /\ status[o] = "live" => Places(o) = 1
        /\ status[o] # "live" => Places(o) = 0

\* A handshake that is about to transfer infants finds the queue empty.
TransferFindsQueueEmpty ==
    \A c \in Chans :
        (chan[c].live /\ chan[c].pending /\ chan[c].request_infants)
            => chan[c].infants = << >>

\* C9: every allocated, not yet deleted object is in exactly one of its
\* creator's local allocations, a channel's infants queue and the
\* collector's objects list; it eventually enters the objects list (while
\* the collector keeps cycling), also when its creator leaves before or
\* after acknowledging a handshake; and a handshake that transfers infants
\* finds the channel's queue empty.
C9_InfantHandOff ==
    /\ [](ExactlyOnePlace /\ TransferFindsQueueEmpty)
    /\ \A o \in Objs :
          (status[o] = "live" /\ o \notin Range(objects))
              ~> (o \in Range(objects) \/ aborted \/ cpc = "done")

C9_Witness ==
    \E c \in Chans :
        /\ chan[c].abandoned /\ Len(chan[c].infants) = 2
        /\ round = "flip" /\ cpc = "receive" /\ c = Last(mutators2)

----------------------------------------------------------------------------
(* Leaving.                                                                 *)

Deletes(c) == chan[c].live /\ ~chan'[c].live

Listed(c) ==
    Occurrences(entrants, c) + Occurrences(mutators, c) + Occurrences(mutators2, c)

\* Channel c was created by an enter() and has been deleted by the collector.
Deleted(c) ==
    /\ ~chan[c].live
    /\ \E t \in Threads, k \in 1..MaxEnters : c = ChanId(t, k) /\ enters[t] >= k

\* The collector holds a pointer to a channel at most once, and only to a
\* channel it has not deleted.
ChannelsHeldOnce ==
    \A c \in Chans : Listed(c) <= 1 /\ (Listed(c) = 1 => chan[c].live)

\* C10: once a channel is abandoned the collector never raises pending on it
\* and never starts a wait on it; a wait in progress ends when the mutator
\* leaves; the collector takes the abandoned channel's infants (in the trace
\* round also its dirty flag), deletes the channel once and never uses it
\* again.
C10_LeaveAnyTime ==
    /\ [][\A c \in Chans :
            /\ chan[c].abandoned => ~chan'[c].pending
            /\ (~cwaiting /\ WaitsOn(c)') => ~chan[c].abandoned
            /\ Deletes(c) =>
                  /\ chan[c].abandoned
                  /\ cpc \in {"request", "receive"}
                  /\ objects' = objects \o chan[c].infants
                  /\ (round = "trace" /\ chan[c].dirty)
                        => (ldirty'[Collector] \/ cpc' = "scanbegin")
                  /\ Listed(c)' = 0
            /\ Deleted(c) => (chan'[c] = chan[c] /\ Listed(c)' = 0)
         ]_vars
    /\ []ChannelsHeldOnce
    /\ (cwaiting /\ chan[Last(mutators2)].abandoned) ~> (~cwaiting \/ aborted)

C10_Witness ==
    \E m \in Mutators :
        /\ mpc[m] = "leave_notify" /\ WaitsOn(lchan[m])
        /\ chan[lchan[m]].abandoned /\ chan[lchan[m]].infants # << >>

----------------------------------------------------------------------------
(* Ctrie: the pure parts of ctrie.cpp.                                     *)

\* A right shift by the width of the hash or more is undefined; the build
\* either reduces the shift count modulo the width or yields zero.
ShiftDefined(lev) == lev < HashBits
Index(hash, lev) ==
    IF ShiftDefined(lev) THEN (hash \div (2 ^ lev)) % (2 ^ LevBits)
    ELSE IF shiftmode = "wrap"
    THEN (hash \div (2 ^ (lev % HashBits))) % (2 ^ LevBits)
    ELSE 0

Hash(s) == HashOf[sview[s]]

\* CNode::flagpos: the flag is the slot's bit, pos the number of lower bits
\* set in the bitmap (here counted from 1).
FlagPos(hash, lev, bmp) ==
    LET a == Index(hash, lev) IN
    [flag |-> a, pos |-> Cardinality({b \in bmp : b < a}) + 1]

CInserted(cn, id, flag, pos, child) ==
    MainC(id, cn.bmp \cup {flag},
          SubSeq(cn.array, 1, pos - 1) \o << child >>
              \o SubSeq(cn.array, pos, Len(cn.array)))
CUpdated(cn, id, pos, child) ==
    MainC(id, cn.bmp, [cn.array EXCEPT ![pos] = child])
\* A broken CNode::removed that leaves the flag in the bitmap.
CRemovedKeepsFlag(cn, id, pos, flag) ==
    MainC(id, cn.bmp,
          SubSeq(cn.array, 1, pos - 1) \o SubSeq(cn.array, pos + 1, Len(cn.array)))
CRemoved(cn, id, pos, flag) ==
    MainC(id, cn.bmp \ {flag},
          SubSeq(cn.array, 1, pos - 1) \o SubSeq(cn.array, pos + 1, Len(cn.array)))

\* A broken toContracted that does not skip level 0.
ContractsAtRoot(cn, lev) ==
    IF Len(cn.array) # 1 THEN cn
    ELSE IF cn.array[1].k = "S" THEN MainT(cn.id, cn.array[1].p)
    ELSE cn

\* toContracted: below the root a C-node with one S child becomes a T-node.
ToContracted(cn, lev) ==
    IF lev = 0 \/ Len(cn.array) > 1 THEN cn
    ELSE IF cn.array[1].k = "S" THEN MainT(cn.id, cn.array[1].p)
    ELSE cn

\* A broken resurrect that keeps the I-node.
ResurrectNothing(im, b) == b

\* resurrect: an I-node whose main is a T-node gives the T-node's S.
Resurrect(im, b) ==
    IF b.k = "I" /\ im[b.p].kind = "T" THEN Branch("S", im[b.p].sn) ELSE b

ToCompressed(im, cn, id, lev) ==
    ToContracted(MainC(id, cn.bmp,
                       [j \in 1..Len(cn.array) |-> Resurrect(im, cn.array[j])]),
                 lev)

\* Main-node ids in use: those published in an I-node and those a thread
\* holds as the expected or desired value of a compare_exchange.  A new
\* node gets the least id not in use.
UsedIds ==
    LET Ids(m) == {m.id} \cup {m.chain[j].id : j \in 1..Len(m.chain)} IN
    UNION {Ids(imain[i]) : i \in INodes}
    \cup UNION {Ids(tcn[t]) \cup Ids(tdes[t]) : t \in CtThreads}
Fresh(used) ==
    CHOOSE x \in 1..(Cardinality(used) + 1) :
        x \notin used /\ \A y \in 1..(x - 1) : y \in used
FreeI(im) == {i \in INodes : im[i].kind = "none"}
FreshI(im) == CHOOSE i \in FreeI(im) : \A j \in FreeI(im) : i <= j
FreeS == {s \in SNodes : sstatus[s] = "free"}
FreshS == CHOOSE s \in FreeS : \A r \in FreeS : s <= r

\* LNode::lookup: the first S of the chain with the queried view.
RECURSIVE LLookup(_, _)
LLookup(chain, v) ==
    IF chain = << >> THEN 0
    ELSE IF sview[chain[1].sn] = v THEN chain[1].sn
    ELSE LLookup(Tail(chain), v)

FirstAt(chain, P(_)) ==
    IF \E j \in 1..Len(chain) : P(chain[j])
    THEN CHOOSE j \in 1..Len(chain) : P(chain[j]) /\ \A h \in 1..(j - 1) : ~P(chain[h])
    ELSE 0

\* Copies of the first n nodes of a chain, each a new LNode.
RECURSIVE CopyPrefix(_, _, _)
CopyPrefix(chain, n, used) ==
    IF n = 0 THEN [chain |-> << >>, used |-> used]
    ELSE LET id == Fresh(used)
             r == CopyPrefix(Tail(chain), n - 1, used \cup {id})
         IN [chain |-> << [id |-> id, sn |-> chain[1].sn] >> \o r.chain,
             used |-> r.used]

\* LNode::inserted: replace the node with the queried view by a node with
\* the new S (copying the nodes before it), or prepend when there is none.
LInserted(chain, v, nsn, used) ==
    LET a == FirstAt(chain, LAMBDA n : sview[n.sn] = v) IN
    IF a = 0 THEN << [id |-> Fresh(used), sn |-> nsn] >> \o chain
    ELSE LET r == CopyPrefix(chain, a - 1, used)
         IN r.chain \o << [id |-> Fresh(r.used), sn |-> nsn] >>
                    \o SubSeq(chain, a + 1, Len(chain))

\* remove compares pointers: this != k in SNode::vremoveB, sn == k in
\* LNode::removed.
IsKeyByView(s, k) == sview[s] = sview[k]
IsKey(s, k) == s = k

\* LNode::removed: the chain without the node holding exactly k, and k, or
\* the same chain and null.
LRemoved(chain, k, used) ==
    LET a == FirstAt(chain, LAMBDA n : IsKey(n.sn, k)) IN
    IF a = 0 THEN [chain |-> chain, v |-> 0]
    ELSE IF a = 1 THEN [chain |-> Tail(chain), v |-> chain[1].sn]
    ELSE [chain |-> CopyPrefix(chain, a - 1, used).chain
                        \o SubSeq(chain, a + 1, Len(chain)),
          v |-> chain[a].sn]

\* CNode::make, for S-nodes s1, s2 with hashes h1, h2.
RECURSIVE Make(_, _, _, _, _, _, _)
Make(s1, h1, s2, h2, lev, im, used) ==
    LET a1 == Index(h1, lev)
        a2 == Index(h2, lev)
    IN
    IF a1 # a2 THEN
        LET id == Fresh(used) IN
        [node |-> MainC(id, {a1, a2},
                        IF a1 > a2 THEN << Branch("S", s2), Branch("S", s1) >>
                        ELSE << Branch("S", s1), Branch("S", s2) >>),
         im |-> im, used |-> used \cup {id}]
    ELSE IF lev + LevBits < HashBits THEN
        LET r == Make(s1, h1, s2, h2, lev + LevBits, im, used)
            i == FreshI(r.im)
            id == Fresh(r.used)
        IN [node |-> MainC(id, {a1}, << Branch("I", i) >>),
            im |-> [r.im EXCEPT ![i] = r.node], used |-> r.used \cup {id}]
    ELSE
        LET d == Fresh(used)
            e == Fresh(used \cup {d})
            i == FreshI(im)
            id == Fresh(used \cup {d, e})
        IN [node |-> MainC(id, {a1}, << Branch("I", i) >>),
            im |-> [im EXCEPT ![i] =
                       MainL(<< [id |-> e, sn |-> s2], [id |-> d, sn |-> s1] >>)],
            used |-> used \cup {d, e, id}]

\* The number of I-nodes make allocates.
RECURSIVE MakeINodes(_, _, _)
MakeINodes(h1, h2, lev) ==
    IF Index(h1, lev) # Index(h2, lev) THEN 0
    ELSE IF lev + LevBits < HashBits THEN 1 + MakeINodes(h1, h2, lev + LevBits)
    ELSE 1

\* The S-nodes the trie holds: reachable from the root through C-node
\* slots, I-nodes, T-nodes and L-chains.
RECURSIVE EntriesAt(_, _)
EntriesAt(i, depth) ==
    LET m == imain[i] IN
    IF depth = 0 THEN {}
    ELSE IF m.kind = "T" THEN {m.sn}
    ELSE IF m.kind = "L" THEN {m.chain[j].sn : j \in 1..Len(m.chain)}
    ELSE IF m.kind = "C" THEN
        UNION {IF m.array[j].k = "S" THEN {m.array[j].p}
               ELSE EntriesAt(m.array[j].p, depth - 1) : j \in 1..Len(m.array)}
    ELSE {}
Entries == EntriesAt(RootI, MaxI)

----------------------------------------------------------------------------
(* Ctrie operations.  A thread's position in lookup / emplace / remove is  *)
(* the path of I-nodes from the root to the one it is at (tpath); the      *)
(* level is LevBits times the depth.  A step is one atomic access: a load  *)
(* of INode::main, a compare_exchange on it, or the compare_exchange on an *)
(* S-node's colour.                                                         *)

CurI(t) == Last(tpath[t])
Par(t) == tpath[t][Len(tpath[t]) - 1]
LevAt(j) == (j - 1) * LevBits
Lev(t) == LevAt(Len(tpath[t]))
QHash(t) == IF top[t].op = "remove" THEN Hash(top[t].k) ELSE HashOf[top[t].view]

CtAt(t, pc) == ~aborted /\ tpc[t] = pc

\* The public operation starts at the root: INode* r = root.
Started(t, op) ==
    /\ top' = [top EXCEPT ![t] = op]
    /\ tpath' = [tpath EXCEPT ![t] = << RootI >>]
    /\ tpc' = [tpc EXCEPT ![t] = "load"]
    /\ tres' = [tres EXCEPT ![t] = 0]
    /\ tcn' = [tcn EXCEPT ![t] = NoMain]
    /\ tdes' = [tdes EXCEPT ![t] = NoMain]
    /\ tkind' = [tkind EXCEPT ![t] = "none"]
    /\ tj' = [tj EXCEPT ![t] = 0]

\* res == RESTART: continue at the root.
Restarted(t) ==
    /\ tpath' = [tpath EXCEPT ![t] = << RootI >>]
    /\ tpc' = [tpc EXCEPT ![t] = "load"]
    /\ tcn' = [tcn EXCEPT ![t] = NoMain]
    /\ tdes' = [tdes EXCEPT ![t] = NoMain]
    /\ tkind' = [tkind EXCEPT ![t] = "none"]
    /\ tj' = [tj EXCEPT ![t] = 0]
    /\ UNCHANGED << top, tres >>

\* The public operation returns r to its caller.
Returned(t, r) ==
    /\ tpc' = [tpc EXCEPT ![t] = "idle"]
    /\ tres' = [tres EXCEPT ![t] = r]
    /\ tpath' = [tpath EXCEPT ![t] = << >>]
    /\ tcn' = [tcn EXCEPT ![t] = NoMain]
    /\ tdes' = [tdes EXCEPT ![t] = NoMain]
    /\ tkind' = [tkind EXCEPT ![t] = "none"]
    /\ tj' = [tj EXCEPT ![t] = 0]
    /\ UNCHANGED top

\* remove got OK with value r at depth j of the path: every CNode::vremoveA
\* on the way back loads its I-node's main and calls vremoveC.  The root's
\* main is never a T-node, so the walk ends below the root.
Unwinding(t, r, j) ==
    IF j <= 1 THEN Returned(t, r)
    ELSE /\ tpc' = [tpc EXCEPT ![t] = "unwind"]
         /\ tres' = [tres EXCEPT ![t] = r]
         /\ tj' = [tj EXCEPT ![t] = j]
         /\ tcn' = [tcn EXCEPT ![t] = NoMain]
         /\ tdes' = [tdes EXCEPT ![t] = NoMain]
         /\ tkind' = [tkind EXCEPT ![t] = "none"]
         /\ UNCHANGED << top, tpath >>

\* A compare_exchange on the main of the current I-node is next.
Attempting(t, m, kind) ==
    /\ tpc' = [tpc EXCEPT ![t] = "cas"]
    /\ tcn' = [tcn EXCEPT ![t] = m]
    /\ tkind' = [tkind EXCEPT ![t] = kind]
    /\ UNCHANGED << top, tpath, tres, tdes, tj >>

Descending(t, i) ==
    /\ tpath' = [tpath EXCEPT ![t] = Append(@, i)]
    /\ UNCHANGED << top, tpc, tres, tcn, tdes, tkind, tj >>

sVars == << sview, scolor, sstatus, sobjects, slocal >>
tVars == << tpc, top, tpath, tcn, tdes, tkind, tres, tj >>
wVars == << wpc, widx, wack >>
encVars == << gwhite, galloc, white, black, cycle >>
gcRest == << entrants, groots, chan, ldirty, lalloc, lroots, lchan, ldepth,
             enters, color, field, status, cpc, round, wwhite, mutators,
             mutators2, objects, stack, idx, first, cwaiting, mpc, reg, tmp,
             ops, owed, rounddirt, late, rescans, flipwhite, stackVars,
             queueVars, partVars >>

\* A mutator calls lookup, emplace or remove.
TBegin(t) ==
    /\ CtAt(t, "idle") /\ t \in CtMutators /\ tops[t] > 0
    /\ tops' = [tops EXCEPT ![t] = @ - 1]
    /\ \/ \E v \in Views :
             /\ Started(t, [op |-> "lookup", view |-> v, k |-> 0])
             /\ expect' = [expect EXCEPT ![t] = IF Cardinality(retd[v]) = 1
                                                THEN CHOOSE s \in retd[v] : TRUE
                                                ELSE 0]
       \/ \E v \in Views :
             /\ Started(t, [op |-> "emplace", view |-> v, k |-> 0])
             /\ UNCHANGED expect
       \/ \E k \in held[t] :
             /\ Started(t, [op |-> "remove", view |-> sview[k], k |-> k])
             /\ UNCHANGED expect
    /\ UNCHANGED << sVars, imain, held, wVars, encVars, gcRest, aborted,
                    shiftmode, retd, absent, ubshift,
                    redcycle, hsince, touched >>

\* ilookup / iinsert / iremove: i->main.load(ACQUIRE) and the virtual call
\* on what was loaded, up to the next atomic access.
TLoad(t) ==
    /\ CtAt(t, "load")
    /\ LET i == CurI(t)
           m == imain[i]
           fp == FlagPos(QHash(t), Lev(t), m.bmp)
           b == m.array[fp.pos]
           op == top[t].op
       IN
       /\ ubshift' = (ubshift \/ (m.kind = "C" /\ ~ShiftDefined(Lev(t))))
       /\ IF m.kind = "T" THEN
              \* TNode::vlookupA / vinsertA / vremoveA: clean(parent, lev - 6)
              /\ tpc' = [tpc EXCEPT ![t] = "clean"]
              /\ UNCHANGED << top, tpath, tres, tcn, tdes, tkind, tj >>
          ELSE IF m.kind = "L" THEN
              IF op = "lookup" THEN Returned(t, LLookup(m.chain, top[t].view))
              ELSE IF op = "emplace" THEN Attempting(t, m, "linsert")
              ELSE Attempting(t, m, "lremove")
          ELSE IF fp.flag \notin m.bmp THEN
              IF op = "lookup" THEN Returned(t, 0)
              ELSE IF op = "emplace" THEN Attempting(t, m, "insert")
              ELSE Unwinding(t, 0, Len(tpath[t]) - 1)
          ELSE IF b.k = "I" THEN Descending(t, b.p)
          ELSE IF op = "lookup" THEN
              \* SNode::vlookupB
              Returned(t, IF sview[b.p] = top[t].view THEN b.p ELSE 0)
          ELSE IF op = "emplace" THEN
              \* SNode::vinsertB
              IF Hash(b.p) = QHash(t) /\ sview[b.p] = top[t].view
              THEN /\ tpc' = [tpc EXCEPT ![t] = "upgrade"]
                   /\ tcn' = [tcn EXCEPT ![t] = m]
                   /\ UNCHANGED << top, tpath, tres, tdes, tkind, tj >>
              ELSE Attempting(t, m, "expand")
          ELSE
              \* SNode::vremoveB
              IF ~IsKey(b.p, top[t].k) THEN Unwinding(t, 0, Len(tpath[t]))
              ELSE Attempting(t, m, "cremove")
    /\ held' = [held EXCEPT ![t] = IF tpc'[t] = "idle" /\ tres'[t] # 0
                                    THEN @ \cup {tres'[t]} ELSE @]
    /\ expect' = [expect EXCEPT ![t] = IF tpc'[t] = "idle" THEN 0 ELSE @]
    /\ UNCHANGED << sVars, imain, tops, wVars, encVars, gcRest, aborted,
                    shiftmode, retd, absent, redcycle,
                    hsince, touched >>

\* SNode::vinsertB found an S with the queried hash and view: try to upgrade
\* it, and return it unless the colour observed is RED.
TUpgrade(t) ==
    /\ CtAt(t, "upgrade")
    /\ LET m == tcn[t]
           fp == FlagPos(QHash(t), Lev(t), m.bmp)
           s == m.array[fp.pos].p
           expected == gwhite
           desired == Xor(expected, UpgradeMask)
           observed == scolor[s]
       IN
       /\ scolor' = IF observed = expected THEN [scolor EXCEPT ![s] = desired]
                    ELSE scolor
       /\ touched' = IF observed = expected THEN touched \cup {s} ELSE touched
       /\ IF observed # RED
          THEN /\ Returned(t, s)
               /\ held' = [held EXCEPT ![t] = @ \cup {s}]
               /\ retd' = IF s \in Entries
                          THEN [retd EXCEPT ![top[t].view] = @ \cup {s}]
                          ELSE retd
          ELSE /\ Attempting(t, m, "replace")
               /\ UNCHANGED << held, retd >>
    /\ UNCHANGED << sview, sstatus, sobjects, slocal, imain, tops, wVars,
                    encVars, gcRest, aborted, shiftmode, absent, ubshift, expect,
                    redcycle, hsince >>

\* new (q.view.size()) SNode(q): the colour is the allocation colour, and
\* the object joins the thread's local allocations.
Allocated(t, s, v) ==
    /\ sview' = [sview EXCEPT ![s] = v]
    /\ scolor' = [scolor EXCEPT ![s] = galloc]
    /\ sstatus' = [sstatus EXCEPT ![s] = "live"]
    /\ slocal' = [slocal EXCEPT ![t] = Append(@, s)]
    /\ touched' = touched \cup {s}
    /\ UNCHANGED sobjects

\* i->main.compare_exchange_strong(expected, desired) succeeds when main
\* still is the node that was loaded.
CasMisses(i, expected) == FALSE
CasHits(i, expected) == imain[i].id = expected.id

\* emplace installs a new S: CNode::vinsertA into an empty slot, or
\* SNode::vinsertB next to an S with another key (expanding) or in place of
\* a RED S with the same key.
TCasInsert(t) ==
    /\ CtAt(t, "cas") /\ tkind[t] \in {"insert", "expand", "replace"}
    /\ FreeS # {}
    /\ LET i == CurI(t)
           cn == tcn[t]
           v == top[t].view
           fp == FlagPos(HashOf[v], Lev(t), cn.bmp)
           nsn == FreshS
           this == cn.array[fp.pos].p
           r == Make(this, Hash(this), nsn, HashOf[v], Lev(t) + LevBits,
                     imain, UsedIds)
           nin == FreshI(r.im)
           desired ==
               IF tkind[t] = "insert"
               THEN CInserted(cn, Fresh(UsedIds), fp.flag, fp.pos, Branch("S", nsn))
               ELSE IF tkind[t] = "replace"
               THEN CUpdated(cn, Fresh(UsedIds), fp.pos, Branch("S", nsn))
               ELSE CUpdated(cn, Fresh(r.used), fp.pos, Branch("I", nin))
           im == IF tkind[t] = "expand" THEN [r.im EXCEPT ![nin] = r.node]
                 ELSE imain
       IN
       /\ (tkind[t] = "expand" /\ CasHits(i, cn)) =>
             Cardinality(FreeI(imain))
                 >= 1 + MakeINodes(Hash(this), HashOf[v], Lev(t) + LevBits)
       /\ Allocated(t, nsn, v)
       /\ ubshift' = (ubshift \/ (tkind[t] = "expand"
                                    /\ ~ShiftDefined(Lev(t) + LevBits)))
       /\ IF CasHits(i, cn)
          THEN /\ imain' = [im EXCEPT ![i] = desired]
               /\ Returned(t, nsn)
               /\ held' = [held EXCEPT ![t] = @ \cup {nsn}]
               /\ retd' = [retd EXCEPT ![v] = @ \cup {nsn}]
               /\ absent' = [absent EXCEPT ![v] = FALSE]
          ELSE /\ Restarted(t)
               /\ UNCHANGED << imain, held, retd, absent >>
    /\ UNCHANGED << tops, wVars, encVars, gcRest, aborted, shiftmode,
                    redcycle, hsince, expect >>

\* LNode::vinsertA: compare_exchange to inserted(q); on success it returns
\* {OK, nullptr}, which Ctrie::emplace asserts against.
TCasLInsert(t) ==
    /\ CtAt(t, "cas") /\ tkind[t] = "linsert"
    /\ FreeS # {}
    /\ LET i == CurI(t)
           ln == tcn[t]
           v == top[t].view
           nsn == FreshS
           desired == MainL(LInserted(ln.chain, v, nsn, UsedIds))
       IN
       /\ Allocated(t, nsn, v)
       /\ IF CasHits(i, ln)
          THEN /\ imain' = [imain EXCEPT ![i] = desired]
               /\ tpc' = [tpc EXCEPT ![t] = "assert"]
               /\ absent' = [absent EXCEPT ![v] = FALSE]
               /\ UNCHANGED << top, tpath, tres, tcn, tdes, tkind, tj >>
          ELSE /\ Restarted(t)
               /\ UNCHANGED << imain, absent >>
    /\ UNCHANGED << tops, held, wVars, encVars, gcRest, aborted, shiftmode,
                    retd, ubshift, expect, redcycle, hsince >>

\* Ctrie::emplace: assert(v2).
TAssert(t) ==
    /\ CtAt(t, "assert")
    /\ aborted' = TRUE
    /\ UNCHANGED << sVars, imain, tVars, tops, held, wVars, encVars, gcRest,
                    shiftmode, retd, absent, ubshift, expect,
                    redcycle, hsince, touched >>

\* SNode::vremoveB for the S that is k, and LNode::vremoveA.
TCasRemove(t) ==
    /\ CtAt(t, "cas") /\ tkind[t] \in {"cremove", "lremove"}
    /\ LET i == CurI(t)
           m == tcn[t]
           k == top[t].k
           fp == FlagPos(Hash(k), Lev(t), m.bmp)
           cntr == ToContracted(CRemoved(m, Fresh(UsedIds), fp.pos, fp.flag), Lev(t))
           r == LRemoved(m.chain, k, UsedIds)
           nln == r.chain
           desired == IF tkind[t] = "cremove" THEN cntr
                      ELSE IF Len(nln) >= 2 THEN MainL(nln)
                      ELSE MainT(Fresh(UsedIds), nln[1].sn)
           v == IF tkind[t] = "cremove" THEN m.array[fp.pos].p ELSE r.v
           j == IF tkind[t] = "cremove" THEN Len(tpath[t]) ELSE Len(tpath[t]) - 1
       IN
       IF tkind[t] = "lremove" /\ nln = << >>
       THEN \* assert(nln && nln->sn)
            /\ aborted' = TRUE
            /\ UNCHANGED << imain, tVars, absent, retd, expect >>
       ELSE /\ UNCHANGED aborted
            /\ IF CasHits(i, m)
               THEN /\ imain' = [imain EXCEPT ![i] = desired]
                    /\ absent' = IF v # 0 THEN [absent EXCEPT ![sview[v]] = TRUE]
                                 ELSE absent
                    /\ retd' = IF v # 0 THEN [retd EXCEPT ![sview[v]] = @ \ {v}]
                               ELSE retd
                    /\ expect' = [u \in CtThreads |->
                                   IF v # 0 /\ expect[u] = v THEN 0 ELSE expect[u]]
                    /\ Unwinding(t, v, j)
               ELSE /\ Restarted(t)
                    /\ UNCHANGED << imain, absent, retd, expect >>
    /\ UNCHANGED << sVars, tops, held, wVars, encVars, gcRest, shiftmode,
                    ubshift, redcycle, hsince, touched >>

\* clean(parent, lev - 6): load the parent's main; CNode::vcleanA builds the
\* compressed copy, reading the main of every I-node child.
TClean(t) ==
    /\ CtAt(t, "clean")
    /\ LET p == Par(t)
           m == imain[p]
       IN IF m.kind = "C"
          THEN /\ tpc' = [tpc EXCEPT ![t] = "cleancas"]
               /\ tcn' = [tcn EXCEPT ![t] = m]
               /\ tdes' = [tdes EXCEPT ![t] =
                             ToCompressed(imain, m, Fresh(UsedIds), Lev(t) - LevBits)]
               /\ UNCHANGED << top, tpath, tres, tkind, tj >>
          ELSE Restarted(t)
    /\ UNCHANGED << sVars, imain, tops, held, wVars, encVars, gcRest, aborted,
                    shiftmode, retd, absent, ubshift, expect,
                    redcycle, hsince, touched >>

\* CNode::vcleanA: the compare_exchange; the operation restarts either way.
TCleanCas(t) ==
    /\ CtAt(t, "cleancas")
    /\ imain' = IF CasHits(Par(t), tcn[t])
                THEN [imain EXCEPT ![Par(t)] = tdes[t]] ELSE imain
    /\ Restarted(t)
    /\ UNCHANGED << sVars, tops, held, wVars, encVars, gcRest, aborted,
                    shiftmode, retd, absent, ubshift, expect,
                    redcycle, hsince, touched >>

\* CNode::vremoveA after an OK from below: i->main.load(ACQUIRE)->vremoveC;
\* a T-node calls cleanParent(parent, i, k->_hash, lev - 6).
TUnwind(t) ==
    /\ CtAt(t, "unwind")
    /\ IF imain[tpath[t][tj[t]]].kind = "T"
       THEN /\ tpc' = [tpc EXCEPT ![t] = "cp"]
            /\ UNCHANGED << top, tpath, tres, tcn, tdes, tkind, tj >>
       ELSE Unwinding(t, tres[t], tj[t] - 1)
    /\ UNCHANGED << sVars, imain, tops, held, wVars, encVars, gcRest, aborted,
                    shiftmode, retd, absent, ubshift, expect,
                    redcycle, hsince, touched >>

\* cleanParent: load i->main and p->main; CNode::vcleanParentA and
\* TNode::vcleanParentB build the parent's C-node with the T-node's S in
\* place of i.
TCleanParent(t) ==
    /\ CtAt(t, "cp")
    /\ LET j == tj[t]
           i == tpath[t][j]
           p == tpath[t][j - 1]
           m == imain[i]
           pm == imain[p]
           fp == FlagPos(QHash(t), LevAt(j - 1), pm.bmp)
       IN IF /\ pm.kind = "C" /\ fp.flag \in pm.bmp
             /\ pm.array[fp.pos] = Branch("I", i) /\ m.kind = "T"
          THEN /\ tpc' = [tpc EXCEPT ![t] = "cpcas"]
               /\ tcn' = [tcn EXCEPT ![t] = pm]
               /\ tdes' = [tdes EXCEPT ![t] =
                             ToContracted(CUpdated(pm, Fresh(UsedIds), fp.pos,
                                                   Branch("S", m.sn)),
                                          LevAt(j - 1))]
               /\ UNCHANGED << top, tpath, tres, tkind, tj >>
          ELSE Unwinding(t, tres[t], j - 1)
    /\ UNCHANGED << sVars, imain, tops, held, wVars, encVars, gcRest, aborted,
                    shiftmode, retd, absent, ubshift, expect,
                    redcycle, hsince, touched >>

\* TNode::vcleanParentB: the compare_exchange on the parent's main;
\* cleanParent loops until it succeeds or finds nothing to do.
TCleanParentCas(t) ==
    /\ CtAt(t, "cpcas")
    /\ LET p == tpath[t][tj[t] - 1] IN
       IF CasHits(p, tcn[t])
       THEN /\ imain' = [imain EXCEPT ![p] = tdes[t]]
            /\ Unwinding(t, tres[t], tj[t] - 1)
       ELSE /\ tpc' = [tpc EXCEPT ![t] = "cp"]
            /\ tcn' = [tcn EXCEPT ![t] = NoMain]
            /\ tdes' = [tdes EXCEPT ![t] = NoMain]
            /\ UNCHANGED << imain, top, tpath, tres, tkind, tj >>
    /\ UNCHANGED << sVars, tops, held, wVars, encVars, gcRest, aborted,
                    shiftmode, retd, absent, ubshift, expect,
                    redcycle, hsince, touched >>

----------------------------------------------------------------------------
(* The collector as the S-nodes see it: the loop of gc.cpp (flip, the      *)
(* step-1 handshake that takes the infants, the scan pass, the trace       *)
(* handshake, the sweep, the remap and its handshake) over the list of     *)
(* S-nodes, with SNode::sweep of ctrie.cpp.  A mutator handshakes between  *)
(* two trie operations and keeps no root across a handshake.               *)

\* SweepContext: _white is set in gc.cpp; BLACK() is _white ^ 2 as in
\* ScanContext.
SweepWhite == white
SweepBlack == Xor(white, ContextMask)

\* gc::handshake() of a mutator with a request pending: the infants go to
\* the channel when the round asked for them (the collector adopts them
\* when it receives the acknowledgement).
THandshake(m) ==
    /\ CtAt(m, "idle") /\ m \in Interners
    /\ wpc \in {"hs1", "hs2", "hs3"} /\ m \notin wack
    /\ wack' = wack \cup {m}
    /\ IF wpc = "hs1"
       THEN /\ sobjects' = sobjects \o slocal[m]
            /\ slocal' = [slocal EXCEPT ![m] = << >>]
       ELSE UNCHANGED << sobjects, slocal >>
    /\ held' = [held EXCEPT ![m] = {}]
    /\ hsince' = [s \in SNodes |-> IF redcycle[s] # 0 THEN hsince[s] \cup {m}
                                   ELSE hsince[s]]
    /\ UNCHANGED << sview, scolor, sstatus, imain, tVars, tops, wpc, widx,
                    encVars, gcRest, aborted, shiftmode, retd, absent, ubshift, expect,
                    redcycle, touched >>

\* collect(): white = global.white, black = white ^ 1.
WEnter ==
    /\ ~aborted /\ wpc = "off"
    /\ white' = gwhite
    /\ black' = Xor(gwhite, CollectorMask)
    /\ wpc' = "flip"
    /\ UNCHANGED << sVars, imain, tVars, tops, held, widx, wack, gwhite,
                    galloc, cycle, gcRest, aborted, shiftmode, retd, absent,
                    ubshift, expect, redcycle, hsince, touched >>

\* Top of the loop: the two asserts, global.alloc := black, and the request
\* of the step-1 handshake.
WFlip ==
    /\ ~aborted /\ wpc = "flip"
    /\ IF gwhite # white \/ galloc # white
       THEN /\ aborted' = TRUE
            /\ UNCHANGED << galloc, wpc, wack, touched >>
       ELSE /\ galloc' = black
            /\ wpc' = "hs1"
            /\ wack' = {}
            /\ touched' = {}
            /\ UNCHANGED aborted
    /\ UNCHANGED << sVars, imain, tVars, tops, held, widx, gwhite, white,
                    black, cycle, gcRest, shiftmode, retd, absent, ubshift, expect,
                    redcycle, hsince >>

\* Every mutator has acknowledged the round.
WReceive ==
    /\ ~aborted /\ wpc \in {"hs1", "hs2", "hs3"} /\ wack = Interners
    /\ wack' = {}
    /\ widx' = 1
    /\ IF wpc = "hs1" THEN wpc' = "trace" /\ UNCHANGED cycle
       ELSE IF wpc = "hs2" THEN wpc' = "sweep" /\ UNCHANGED cycle
       ELSE /\ cycle < MaxCtCycles
            /\ wpc' = "flip"
            /\ cycle' = cycle + 1
    /\ UNCHANGED << sVars, imain, tVars, tops, held, gwhite, galloc, white,
                    black, gcRest, aborted, shiftmode, retd, absent, ubshift, expect,
                    redcycle, hsince, touched >>

\* The S-nodes that scanning the trie from its root pushes: TNode::scan and
\* LNode::scan call context.push(sn); CNode::scan calls scan_weak on its
\* children, which SNode::scan_weak ignores.
RECURSIVE PushedAt(_, _)
PushedAt(i, depth) ==
    LET m == imain[i] IN
    IF depth = 0 THEN {}
    ELSE IF m.kind = "T" THEN {m.sn}
    ELSE IF m.kind = "L" THEN {m.chain[j].sn : j \in 1..Len(m.chain)}
    ELSE IF m.kind = "C" THEN
        UNION {IF m.array[j].k = "S" THEN {}
               ELSE PushedAt(m.array[j].p, depth - 1) : j \in 1..Len(m.array)}
    ELSE {}
TriePushed == PushedAt(RootI, MaxI)

\* push of a leaf: the compare_exchange from _white to _white ^ 2 only.
LeafPushed(c) == IF c = white THEN Xor(white, PushMask) ELSE c

\* The trie is scanned from the global root.
WTrace ==
    /\ ~aborted /\ wpc = "trace"
    /\ scolor' = [s \in SNodes |->
                    IF s \in TriePushed /\ sstatus[s] = "live"
                    THEN LeafPushed(scolor[s]) ELSE scolor[s]]
    /\ wpc' = "scan"
    /\ UNCHANGED << sview, sstatus, sobjects, slocal, imain, tVars, tops, held,
                    widx, wack, encVars, gcRest, aborted, shiftmode, retd,
                    absent, ubshift, expect, redcycle, hsince, touched >>

\* The scan pass over objects: compare_exchange GRAY -> black and the
\* classification of what was observed; object->scan() of an S is
\* SNode::scan, a trap.
WScan ==
    /\ ~aborted /\ wpc = "scan" /\ widx <= Len(sobjects)
    /\ LET s == sobjects[widx]
           expected == scolor[s]
       IN
       /\ scolor' = IF expected = GRAY THEN [scolor EXCEPT ![s] = black]
                    ELSE scolor
       /\ IF expected = black \/ (expected # GRAY /\ expected \in {white, RED})
          THEN /\ widx' = widx + 1
               /\ UNCHANGED aborted
          ELSE /\ aborted' = TRUE
               /\ UNCHANGED widx
    /\ UNCHANGED << sview, sstatus, sobjects, slocal, imain, tVars, tops, held,
                    wpc, wack, encVars, gcRest, shiftmode, retd, absent,
                    ubshift, expect, redcycle, hsince, touched >>

\* The scan pass is over: the trace handshake is requested.
WScanEnd ==
    /\ ~aborted /\ wpc = "scan" /\ widx > Len(sobjects)
    /\ wpc' = "hs2"
    /\ wack' = {}
    /\ UNCHANGED << sVars, imain, tVars, tops, held, widx, encVars, gcRest,
                    aborted, shiftmode, retd, absent, ubshift, expect, redcycle,
                    hsince, touched >>

\* SNode::sweep of the next object of the list.  On winning WHITE -> RED the
\* collector calls global_string_ctrie->remove(this) before it goes on.
WSweep ==
    /\ ~aborted /\ wpc = "sweep" /\ widx <= Len(sobjects)
    /\ tpc[0] = "idle"
    /\ LET s == sobjects[widx]
           expected == scolor[s]
       IN
       IF expected = SweepWhite THEN
           /\ scolor' = [scolor EXCEPT ![s] = RED]
           /\ redcycle' = [redcycle EXCEPT ![s] = cycle]
           /\ hsince' = [hsince EXCEPT ![s] = {}]
           /\ retd' = [retd EXCEPT ![sview[s]] = @ \ {s}]
           /\ expect' = [u \in CtThreads |-> IF expect[u] = s THEN 0 ELSE expect[u]]
           /\ Started(0, [op |-> "remove", view |-> sview[s], k |-> s])
           /\ widx' = widx + 1
           /\ UNCHANGED << sstatus, sobjects, aborted >>
       ELSE IF expected = SweepBlack THEN
           /\ widx' = widx + 1
           /\ UNCHANGED << scolor, sstatus, sobjects, tVars, aborted, redcycle,
                           hsince, retd, expect >>
       ELSE IF expected = RED THEN
           /\ sstatus' = [sstatus EXCEPT ![s] = "deleted"]
           /\ sobjects' = SwapRemoved(sobjects, widx)
           /\ UNCHANGED << scolor, widx, tVars, aborted, redcycle, hsince, retd,
                           expect >>
       ELSE
           /\ aborted' = TRUE
           /\ UNCHANGED << scolor, sstatus, sobjects, widx, tVars, redcycle,
                           hsince, retd, expect >>
    /\ UNCHANGED << sview, slocal, imain, tops, held, wpc, wack, encVars,
                    gcRest, shiftmode, absent, ubshift, touched >>

\* The remap: swap(white, black), publish white, request the remap round.
WRemap ==
    /\ ~aborted /\ wpc = "sweep" /\ widx > Len(sobjects)
    /\ tpc[0] = "idle"
    /\ white' = black
    /\ black' = white
    /\ gwhite' = black
    /\ wpc' = "hs3"
    /\ wack' = {}
    /\ UNCHANGED << sVars, imain, tVars, tops, held, widx, galloc, cycle,
                    gcRest, aborted, shiftmode, retd, absent, ubshift, expect,
                    redcycle, hsince, touched >>

\* A thread reaches an S-node that has been deleted: the read of freed
\* memory may fault.
TouchesDeleted(t) ==
    \/ /\ tpc[t] = "load"
       /\ LET m == imain[CurI(t)]
              fp == FlagPos(QHash(t), Lev(t), m.bmp)
          IN \/ /\ m.kind = "C" /\ fp.flag \in m.bmp
                /\ m.array[fp.pos].k = "S"
                /\ sstatus[m.array[fp.pos].p] = "deleted"
             \/ /\ m.kind = "L"
                /\ \E j \in 1..Len(m.chain) : sstatus[m.chain[j].sn] = "deleted"
    \/ /\ tpc[t] = "upgrade"
       /\ LET fp == FlagPos(QHash(t), Lev(t), tcn[t].bmp)
          IN sstatus[tcn[t].array[fp.pos].p] = "deleted"

TCrash(t) ==
    /\ ~aborted /\ TouchesDeleted(t)
    /\ aborted' = TRUE
    /\ UNCHANGED << sVars, imain, tVars, tops, held, wVars, encVars, gcRest,
                    shiftmode, retd, absent, ubshift, expect, redcycle, hsince,
                    touched >>

\* The trie alone: NCt threads, each beginning up to MaxCtOps operations, and
\* no collector.
CtInit ==
    /\ GcInit
    /\ NoStack
    /\ NoQueue /\ NoStr /\ NoChan
    /\ CtrieInit
    /\ tops = [t \in CtThreads |-> IF t \in CtMutators THEN MaxCtOps ELSE 0]
    /\ shiftmode \in {"wrap", "zero"}

CtThreadStep(t) ==
    \/ TBegin(t) \/ TLoad(t) \/ TUpgrade(t)
    \/ TCasInsert(t) \/ TCasLInsert(t) \/ TAssert(t) \/ TCasRemove(t)
    \/ TClean(t) \/ TCleanCas(t)
    \/ TUnwind(t) \/ TCleanParent(t) \/ TCleanParentCas(t)

CtNext == \E t \in CtMutators : CtThreadStep(t)

CtrieSpec == CtInit /\ [][CtNext]_vars

\* The interning set under collection: the collector (thread 0) and the
\* mutators of Interners, each beginning up to MaxInternOps operations.
InternInit ==
    /\ GcInit
    /\ NoStack
    /\ NoQueue /\ NoStr /\ NoChan
    /\ CtrieInit
    /\ tops = [t \in CtThreads |-> IF t \in Interners THEN MaxInternOps ELSE 0]
    /\ shiftmode \in {"wrap", "zero"}

CtCollectorStep ==
    \/ WEnter \/ WFlip \/ WReceive \/ WTrace \/ WScan \/ WScanEnd
    \/ WSweep \/ WRemap

InternNext ==
    \/ CtCollectorStep
    \/ \E t \in {0} \cup Interners : CtThreadStep(t) \/ TCrash(t)
    \/ \E m \in Interners : THandshake(m)

InternSpec == InternInit /\ [][InternNext]_vars

----------------------------------------------------------------------------
(* Properties of the interning set.                                        *)

\* The abstract set the trie stands for: per view, the S-nodes it holds.
Interned(v) == {s \in Entries : sview[s] = v}

\* Thread t's operation takes effect or responds in this step.
Responds(t) == tpc[t] # "idle" /\ tpc'[t] = "idle"
LookupResponds(t) == top[t].op = "lookup" /\ Responds(t)
EmplaceFinds(t) == top[t].op = "emplace" /\ tpc[t] = "load" /\ tpc'[t] = "upgrade"
EmplaceInstalls(t) ==
    /\ top[t].op = "emplace" /\ tpc[t] = "cas"
    /\ tpc'[t] \in {"idle", "assert"}
RemoveDecides(t) ==
    /\ top[t].op = "remove" /\ tpc[t] \in {"load", "cas"}
    /\ tpc'[t] \in {"unwind", "idle"}

\* What a serial lookup, emplace and remove do to the set and return.
SerialLookup(t) ==
    /\ Entries' = Entries
    /\ IF Interned(top[t].view) = {} THEN tres'[t] = 0
       ELSE Interned(top[t].view) = {tres'[t]}
SerialEmplaceFound(t) ==
    /\ Entries' = Entries
    /\ LET fp == FlagPos(QHash(t), Lev(t), tcn'[t].bmp)
       IN Interned(top[t].view) = {tcn'[t].array[fp.pos].p}
SerialEmplaceNew(t) ==
    /\ Interned(top[t].view) = {}
    /\ Last(slocal'[t]) \notin Entries
    /\ sview'[Last(slocal'[t])] = top[t].view
    /\ Entries' = Entries \cup {Last(slocal'[t])}
    /\ tpc'[t] = "idle" => tres'[t] = Last(slocal'[t])
SerialRemove(t) ==
    IF top[t].k \in Entries
    THEN Entries' = Entries \ {top[t].k} /\ tres'[t] = top[t].k
    ELSE Entries' = Entries /\ tres'[t] = 0

LinearizationStep ==
    \/ \E t \in CtThreads :
          \/ LookupResponds(t) /\ SerialLookup(t)
          \/ EmplaceFinds(t) /\ SerialEmplaceFound(t)
          \/ EmplaceInstalls(t) /\ SerialEmplaceNew(t)
          \/ RemoveDecides(t) /\ SerialRemove(t)
    \/ /\ Entries' = Entries
       /\ \A t \in CtThreads :
             ~(LookupResponds(t) \/ EmplaceFinds(t) \/ EmplaceInstalls(t)
               \/ RemoveDecides(t))

\* C11: Ctrie linearizability.  Every step of a concurrent execution either
\* leaves the set of entries alone or is the one step at which a lookup,
\* an emplace or a remove takes effect, between its call and its return,
\* with the effect and the return value of the serial operation on the set
\* of entries of that moment.
C11_Linearizable == [][LinearizationStep]_vars

\* The S-nodes that emplace calls for view v have given out (found and
\* returned, or installed) and that no remove and no sweep has taken from
\* the trie since.
Given(v) ==
    retd[v] \cup {Last(slocal[t]) :
                    t \in {u \in CtThreads : tpc[u] = "assert" /\ top[u].view = v}}

\* C12: Ctrie uniqueness.  At a quiescent point the trie holds at most one
\* S-node that is not RED per view, and the emplace calls for one view, not
\* separated by a removal of the S, all give the same S-node, also for a
\* view stored in an L-chain.
C12_Uniqueness ==
    \A v \in Views :
        /\ (\A t \in CtThreads : tpc[t] = "idle")
              => Cardinality({s \in Interned(v) : scolor[s] # RED}) <= 1
        /\ Cardinality(Given(v)) <= 1

\* emplace passes its last atomic access: the colour it observed lets it
\* return the S it found, or its compare_exchange on main succeeded.
EmplaceDecides(t) ==
    /\ top[t].op = "emplace" /\ tpc[t] \in {"upgrade", "cas"}
    /\ tpc'[t] \in {"idle", "assert"}

EmplaceReturnsNode(t) ==
    /\ tpc'[t] = "idle"
    /\ tres'[t] # 0
    /\ sview'[tres'[t]] = top[t].view
    /\ IF tpc[t] = "upgrade" THEN Entries' = Entries
       ELSE /\ Interned(top[t].view) = {}
            /\ Entries' = Entries \cup {tres'[t]}

\* C13: emplace(q) returns a non-null S-node whose view is q.view: the one
\* present for the view, installing nothing, or else the one it has just
\* installed, on every path (empty slot, expansion, L-chain).
C13_EmplaceReturnsNode ==
    [][\A t \in CtThreads : EmplaceDecides(t) => EmplaceReturnsNode(t)]_vars

\* C14: round trip.  A lookup of a view, begun when emplace has given out
\* s for that view and with no remove of s since, returns s.
C14_RoundTrip ==
    [][\A t \in CtThreads :
          (LookupResponds(t) /\ expect[t] # 0) => tres'[t] = expect[t]]_vars

\* C15: remove(s) is identity-based.  It takes an entry out and returns s
\* only when the node s itself is in the trie; otherwise (slot empty, or
\* another S-node, even of equal view) it returns none and the entries stay
\* as they are; and after a remove has taken the S of a view out, a lookup
\* of the view returns none until an emplace installs one.
C15_RemoveByIdentity ==
    [][\A t \in CtThreads :
          /\ RemoveDecides(t) => SerialRemove(t)
          /\ (LookupResponds(t) /\ absent[top[t].view]) => tres'[t] = 0]_vars

\* A remove has returned none while the trie holds another S-node with the
\* view of its argument.
C15_Witness ==
    \E t \in CtThreads :
        /\ top[t].op = "remove" /\ tpc[t] = "idle" /\ tres[t] = 0
        /\ top[t].k \notin Entries
        /\ Interned(sview[top[t].k]) # {}

\* Two S-nodes whose hashes agree on every bit the C-node levels consume.
Colliding(s1, s2) == s1 # s2 /\ Hash(s1) = Hash(s2)
InOneChain(s1, s2) ==
    \E i \in INodes :
        /\ imain[i].kind = "L"
        /\ {s1, s2} \subseteq {imain[i].chain[j].sn : j \in 1..Len(imain[i].chain)}

\* C20: hash collisions.  Two entries whose hashes collide are both stored,
\* in one L-chain, and no C-node level is built or indexed with a shift of
\* the width of the hash or more.
C20_Collisions ==
    /\ \A s1, s2 \in Entries : Colliding(s1, s2) => InOneChain(s1, s2)
    /\ ~ubshift

\* The sweep deletes s, or finds it WHITE and wins the race to RED.
SweepDeletesNode(s) == sstatus[s] = "live" /\ sstatus'[s] = "deleted"
SweepReddens(s) ==
    /\ wpc = "sweep" /\ widx <= Len(sobjects) /\ sobjects[widx] = s
    /\ scolor[s] = SweepWhite /\ widx' # widx

C18_LookupUpgrades ==
    [][\A t \in Interners :
          (LookupResponds(t) /\ tres'[t] # 0) =>
              /\ scolor'[tres'[t]] # gwhite
              /\ scolor'[tres'[t]] # RED]_vars

----------------------------------------------------------------------------
(* Progress of the Ctrie operations.                                       *)

\* A thread can take a step when it is inside an operation or has one left
\* to call.  While some thread can take a step, one is taken: weak
\* fairness of CtNext, with its enabling condition written out.
CtCanStep ==
    ~aborted /\ \E t \in CtMutators : tpc[t] # "idle" \/ tops[t] > 0
CtFairness == []<>(~CtCanStep) \/ []<><<CtNext>>_vars
CtFairSpec == CtrieSpec /\ CtFairness

\* if (res == RESTART) continue: the operation goes back to the root.
Restarts(t) ==
    /\ tpc[t] \notin {"idle", "load"}
    /\ tpc'[t] = "load" /\ tpath'[t] = << RootI >>

\* The compare_exchange the thread is about to perform fails: the main node
\* it loaded has been replaced by another operation's compare_exchange.
Interfered(t) ==
    \/ tpc[t] = "cas" /\ imain[CurI(t)].id # tcn[t].id
    \/ tpc[t] = "cpcas" /\ imain[tpath[t][tj[t] - 1]].id # tcn[t].id

\* Every operation the threads were to call has left its loop with a result
\* that is not RESTART and has returned.
AllReturned == \A t \in CtMutators : tops[t] = 0 /\ tpc[t] = "idle"

\* C21: Ctrie progress.  An operation goes back to the root only when its
\* compare_exchange failed against another operation's or when it cleaned
\* a T-node; cleanParent retries only after a failed compare_exchange; and
\* as long as steps are taken every operation that is called returns, so
\* that all of them have returned in the end (unless the assert of emplace
\* ends the process first).
C21_Progress ==
    /\ [][\A t \in CtMutators :
             /\ Restarts(t) => (tpc[t] \in {"clean", "cleancas"} \/ Interfered(t))
             /\ (tpc[t] = "cpcas" /\ tpc'[t] = "cp") => Interfered(t)]_vars
    /\ <>(AllReturned \/ aborted)

\* cleanParent is about to retry: its compare_exchange on the parent's main
\* will fail because another operation replaced that main node.
C21_Witness ==
    \E t \in CtMutators :
        tpc[t] = "cpcas" /\ imain[tpath[t][tj[t] - 1]].id # tcn[t].id

----------------------------------------------------------------------------
(* The stack exercise of main.cpp (namespace gch3): a collector with a     *)
(* fixed array of channels, THREADS mutators, and a Treiber stack of       *)
(* Node<int> whose head and next fields are Slots with a write barrier.    *)
(* Each atomic access to shared memory is a step of its own; statements    *)
(* on a thread's own data are taken together with the next shared access.  *)

ConfigurationOf(l) == [WHITE |-> l.WHITE, BLACK |-> l.BLACK, ALLOC |-> l.ALLOC]

GcShadeNever(t, o) == FALSE
\* Object::_gc_shade's compare_exchange_strong(expected = WHITE, GRAY) takes
\* effect.
GcShadeHits(t, o) == o # Null /\ nodes[o].color = local[t].WHITE

\* Object::_gc_shade(object) run by thread t.  Shading a node that has been
\* deleted reads freed memory; where the poison value is still there the
\* code calls abort().
GcShade(t, o) ==
    IF o # Null /\ nodes[o].state = "deleted"
    THEN /\ fatal' = "shade"
         /\ UNCHANGED << nodes, local >>
    ELSE /\ nodes' = IF GcShadeHits(t, o)
                     THEN [nodes EXCEPT ![o].color = GRAY] ELSE nodes
         /\ local' = IF GcShadeHits(t, o)
                     THEN [local EXCEPT ![t].dirty = TRUE] ELSE local
         /\ UNCHANGED fatal

SAt(m, pc) == fatal = "none" /\ mutate[m].pc = pc

\* mutate(): the handshake block at the top of the loop.
SHandshake(m) ==
    /\ SAt(m, "handshake")
    /\ LET ch == channels[m]
           flipped_ALLOC == local[m].ALLOC # ch.configuration.ALLOC
       IN IF ~ch.pending
          THEN UNCHANGED << channels, local, fatal >>
          ELSE IF flipped_ALLOC /\ ch.infants # << >>
          THEN /\ fatal' = "assert"
               /\ UNCHANGED << channels, local >>
          ELSE /\ local' = [local EXCEPT ![m] =
                               [WHITE |-> ch.configuration.WHITE,
                                BLACK |-> ch.configuration.BLACK,
                                ALLOC |-> ch.configuration.ALLOC,
                                dirty |-> FALSE,
                                infants |-> IF flipped_ALLOC THEN ch.infants
                                            ELSE local[m].infants]]
               /\ channels' = [channels EXCEPT ![m] =
                                  [pending |-> FALSE,
                                   configuration |-> ch.configuration,
                                   dirty |-> local[m].dirty,
                                   infants |-> IF flipped_ALLOC
                                               THEN local[m].infants
                                               ELSE ch.infants]]
               /\ UNCHANGED fatal
    /\ mutate' = [mutate EXCEPT ![m].pc = "roots"]
    /\ UNCHANGED << nodes, global_stack, global_integers, collect, gchVars >>

\* global_stack._gc_scan(): head.load(acquire).
SRootsLoad(m) ==
    /\ SAt(m, "roots")
    /\ mutate' = [mutate EXCEPT ![m].pc = "rootshade",
                                ![m].expected = global_stack]
    /\ UNCHANGED << nodes, global_stack, global_integers, channels, local,
                    collect, fatal, gchVars >>

\* global_stack._gc_scan(): Object::_gc_shade of the loaded head.  The
\* vector roots of mutate() stays empty.
SRootsShade(m) ==
    /\ SAt(m, "rootshade")
    /\ GcShade(m, mutate[m].expected)
    /\ mutate' = [mutate EXCEPT ![m].pc = "op", ![m].expected = Null]
    /\ UNCHANGED << global_stack, global_integers, channels, collect, gchVars >>

\* The end of one operation of the batch, of the batch, and of mutate():
\* if (k > 10000000) the popped integers go to global_integers under its
\* mutex and the thread returns.
AfterOp(r) ==
    LET r1 == [r EXCEPT !.expected = Null, !.desired = Null, !.old = Null,
                        !.i = r.i + 1]
    IN IF r1.i # BatchOps THEN [r1 EXCEPT !.pc = "op"]
       ELSE IF r1.k > KLimit THEN [r1 EXCEPT !.pc = "done", !.i = 0]
       ELSE [r1 EXCEPT !.pc = "handshake", !.i = 0]

Published(r) ==
    IF AfterOp(r).pc = "done" THEN global_integers \o r.integers
    ELSE global_integers

\* else branch of rand() % 2: new Node<int> (Object::Object gives it the
\* colour local.ALLOC and pushes it on local.infants), payload = k, and
\* Stack::push loads the head.
SPushLoad(m) ==
    /\ SAt(m, "op")
    /\ LET n == mutate[m].k + 1
       IN /\ nodes' = [nodes EXCEPT ![n] =
                          [color |-> local[m].ALLOC, next |-> Null,
                           payload |-> mutate[m].k, state |-> "live",
                           pushed |-> FALSE]]
          /\ local' = [local EXCEPT ![m].infants = Append(@, n)]
          /\ mutate' = [mutate EXCEPT ![m].pc = "pushstore",
                                      ![m].desired = n,
                                      ![m].expected = global_stack]
    /\ UNCHANGED << global_stack, global_integers, channels, collect, fatal,
                    gchVars >>

\* Stack::push: desired->next.store(expected): shade(expected) and the
\* exchange on the node, which no other thread can reach yet.
SPushStore(m) ==
    /\ SAt(m, "pushstore")
    /\ LET d == mutate[m].desired
           e == mutate[m].expected
           old == nodes[d].next
       IN /\ IF e # Null /\ nodes[e].state = "deleted"
             THEN /\ fatal' = "shade"
                  /\ UNCHANGED << nodes, local >>
             ELSE /\ nodes' = [(IF GcShadeHits(m, e)
                                 THEN [nodes EXCEPT ![e].color = GRAY]
                                 ELSE nodes) EXCEPT ![d].next = e]
                  /\ local' = IF GcShadeHits(m, e)
                              THEN [local EXCEPT ![m].dirty = TRUE] ELSE local
                  /\ UNCHANGED fatal
          /\ mutate' = [mutate EXCEPT
                           ![m].pc = IF old = Null THEN "pushcas" ELSE "pushold",
                           ![m].old = old]
    /\ UNCHANGED << global_stack, global_integers, channels, collect, gchVars >>

\* Slot::store: Object::_gc_shade(old), on a retry of push.
SPushOld(m) ==
    /\ SAt(m, "pushold")
    /\ GcShade(m, mutate[m].old)
    /\ mutate' = [mutate EXCEPT ![m].pc = "pushcas", ![m].old = Null]
    /\ UNCHANGED << global_stack, global_integers, channels, collect, gchVars >>

\* Stack::push: head.compare_exchange_strong(expected, desired).
SPushCas(m) ==
    /\ SAt(m, "pushcas")
    /\ IF global_stack = mutate[m].expected
       THEN /\ global_stack' = mutate[m].desired
            /\ nodes' = [nodes EXCEPT ![mutate[m].desired].pushed = TRUE]
            /\ mutate' = [mutate EXCEPT ![m].pc = "pushshade"]
       ELSE /\ mutate' = [mutate EXCEPT ![m].pc = "pushstore",
                                        ![m].expected = global_stack]
            /\ UNCHANGED << global_stack, nodes >>
    /\ UNCHANGED << global_integers, channels, local, collect, fatal, gchVars >>

\* Slot::compare_exchange_strong: Object::_gc_shade(expected).
SPushShadeExpected(m) ==
    /\ SAt(m, "pushshade")
    /\ GcShade(m, mutate[m].expected)
    /\ mutate' = [mutate EXCEPT ![m].pc = "pushshade2"]
    /\ UNCHANGED << global_stack, global_integers, channels, collect, gchVars >>

\* Slot::compare_exchange_strong: Object::_gc_shade(desired); k += THREADS.
SPushShadeDesired(m) ==
    /\ SAt(m, "pushshade2")
    /\ GcShade(m, mutate[m].desired)
    /\ LET r == [mutate[m] EXCEPT !.k = @ + THREADS]
       IN /\ mutate' = [mutate EXCEPT ![m] = AfterOp(r)]
          /\ global_integers' = Published(r)
    /\ UNCHANGED << global_stack, channels, collect, gchVars >>

\* if (!(rand() % 2)): Stack::pop loads the head.
SPopLoad(m) ==
    /\ SAt(m, "op")
    /\ mutate' = [mutate EXCEPT ![m].pc = "popnext",
                                ![m].expected = global_stack]
    /\ UNCHANGED << nodes, global_stack, global_integers, channels, local,
                    collect, fatal, gchVars >>

\* Stack::pop: if (expected == nullptr) return false; otherwise
\* desired = expected->next.load(acquire).  The load reads freed memory if
\* the node has been deleted.
SPopNext(m) ==
    /\ SAt(m, "popnext")
    /\ LET e == mutate[m].expected
       IN IF e = Null
          THEN /\ mutate' = [mutate EXCEPT ![m] = AfterOp(mutate[m])]
               /\ global_integers' = Published(mutate[m])
               /\ UNCHANGED fatal
          ELSE IF nodes[e].state = "deleted"
          THEN /\ fatal' = "freed"
               /\ UNCHANGED << mutate, global_integers >>
          ELSE /\ mutate' = [mutate EXCEPT ![m].pc = "popcas",
                                           ![m].desired = nodes[e].next]
               /\ UNCHANGED << fatal, global_integers >>
    /\ UNCHANGED << nodes, global_stack, channels, local, collect, gchVars >>

\* Stack::pop: head.compare_exchange_strong(expected, desired).
SPopCas(m) ==
    /\ SAt(m, "popcas")
    /\ IF global_stack = mutate[m].expected
       THEN /\ global_stack' = mutate[m].desired
            /\ mutate' = [mutate EXCEPT ![m].pc = "popshade"]
       ELSE /\ mutate' = [mutate EXCEPT ![m].pc = "popnext",
                                        ![m].expected = global_stack,
                                        ![m].desired = Null]
            /\ UNCHANGED global_stack
    /\ UNCHANGED << nodes, global_integers, channels, local, collect, fatal,
                    gchVars >>

SPopShadeExpected(m) ==
    /\ SAt(m, "popshade")
    /\ GcShade(m, mutate[m].expected)
    /\ mutate' = [mutate EXCEPT ![m].pc = "popshade2"]
    /\ UNCHANGED << global_stack, global_integers, channels, collect, gchVars >>

SPopShadeDesired(m) ==
    /\ SAt(m, "popshade2")
    /\ GcShade(m, mutate[m].desired)
    /\ mutate' = [mutate EXCEPT ![m].pc = "popbreak"]
    /\ UNCHANGED << global_stack, global_integers, channels, collect, gchVars >>

\* Stack::pop: victim = std::move(expected->payload) and
\* expected->next.store(nullptr): the exchange.
SPopBreak(m) ==
    /\ SAt(m, "popbreak")
    /\ LET e == mutate[m].expected
       IN IF nodes[e].state = "deleted"
          THEN /\ fatal' = "freed"
               /\ UNCHANGED << nodes, mutate >>
          ELSE /\ nodes' = [nodes EXCEPT ![e].next = Null]
               /\ mutate' = [mutate EXCEPT
                                ![m].pc = "popold",
                                ![m].old = nodes[e].next,
                                ![m].integers = Append(@, nodes[e].payload)]
               /\ UNCHANGED fatal
    /\ UNCHANGED << global_stack, global_integers, channels, local, collect,
                    gchVars >>

\* Slot::store: Object::_gc_shade(old); pop returns true and the integer is
\* kept (integers.push_back(j)).
SPopOld(m) ==
    /\ SAt(m, "popold")
    /\ GcShade(m, mutate[m].old)
    /\ mutate' = [mutate EXCEPT ![m] = AfterOp(mutate[m])]
    /\ global_integers' = Published(mutate[m])
    /\ UNCHANGED << global_stack, channels, collect, gchVars >>

SStep(m) ==
    \/ SHandshake(m) \/ SRootsLoad(m) \/ SRootsShade(m)
    \/ SPushLoad(m) \/ SPushStore(m) \/ SPushOld(m) \/ SPushCas(m)
    \/ SPushShadeExpected(m) \/ SPushShadeDesired(m)
    \/ SPopLoad(m) \/ SPopNext(m) \/ SPopCas(m)
    \/ SPopShadeExpected(m) \/ SPopShadeDesired(m)
    \/ SPopBreak(m) \/ SPopOld(m)

KAt(pcs) == fatal = "none" /\ collect.pc \in pcs

\* collect(): assert(local.ALLOC == local.WHITE); local.ALLOC = local.BLACK.
KBegin ==
    /\ KAt({"begin"})
    /\ IF local[C0].ALLOC # local[C0].WHITE
       THEN /\ fatal' = "assert"
            /\ UNCHANGED << local, collect >>
       ELSE /\ local' = [local EXCEPT ![C0].ALLOC = local[C0].BLACK]
            /\ collect' = [collect EXCEPT !.pc = "request1", !.i = 0]
            /\ UNCHANGED fatal
    /\ UNCHANGED << nodes, global_stack, global_integers, channels, mutate,
                    gchVars >>

NextRound(pc) ==
    CASE pc = "request1" -> "receive1"
      [] pc = "request2" -> "receive2"
      [] pc = "request3" -> "receive3"

\* The three "initiate handshakes" loops: one channel per step; the
\* configuration is published in the first and in the last.
KRequest ==
    /\ KAt({"request1", "request2", "request3"})
    /\ LET i == collect.i
       IN /\ channels' = [channels EXCEPT
                             ![i].pending = TRUE,
                             ![i].configuration =
                                 IF collect.pc = "request2" THEN @
                                 ELSE ConfigurationOf(local[C0])]
          /\ collect' = IF i + 1 = THREADS
                        THEN [collect EXCEPT !.pc = NextRound(collect.pc),
                                             !.i = 0]
                        ELSE [collect EXCEPT !.i = i + 1]
    /\ UNCHANGED << nodes, global_stack, global_integers, local, mutate, fatal,
                    gchVars >>

\* "receive handshakes" of the allocation flip: the wait ends, the
\* channel's infants are swapped out and ingested into objects.
KReceiveInfants ==
    /\ KAt({"receive1"})
    /\ LET i == collect.i
       IN /\ ~channels[i].pending
          /\ channels' = [channels EXCEPT ![i].infants = << >>]
          /\ collect' = [collect EXCEPT
                            !.objects = @ \o channels[i].infants,
                            !.i = IF i + 1 = THREADS THEN 0 ELSE i + 1,
                            !.pc = IF i + 1 = THREADS THEN "scan" ELSE @]
    /\ UNCHANGED << nodes, global_stack, global_integers, local, mutate, fatal,
                    gchVars >>

\* "receive handshakes" of a trace round: if (channels[i].dirty)
\* local.dirty = true; after the loop, if (!local.dirty) break;
\* local.dirty = false.
KReceiveDirty ==
    /\ KAt({"receive2"})
    /\ LET i == collect.i
           dirty == local[C0].dirty \/ channels[i].dirty
       IN /\ ~channels[i].pending
          /\ IF i + 1 # THREADS
             THEN /\ local' = [local EXCEPT ![C0].dirty = dirty]
                  /\ collect' = [collect EXCEPT !.i = i + 1]
             ELSE /\ local' = [local EXCEPT ![C0].dirty = FALSE]
                  /\ collect' = [collect EXCEPT
                                    !.i = 0, !.first = 1,
                                    !.pc = IF dirty THEN "scan" ELSE "sweep"]
    /\ UNCHANGED << nodes, global_stack, global_integers, channels, mutate,
                    fatal, gchVars >>

\* "receive handshakes" of the recolouring.
KReceiveRemap ==
    /\ KAt({"receive3"})
    /\ LET i == collect.i
       IN /\ ~channels[i].pending
          /\ collect' = [collect EXCEPT
                            !.i = IF i + 1 = THREADS THEN 0 ELSE i + 1,
                            !.pc = IF i + 1 = THREADS THEN "begin" ELSE @]
    /\ UNCHANGED << nodes, global_stack, global_integers, channels, local,
                    mutate, fatal, gchVars >>

\* wait_for(lock, 1s) times out and the collector calls abort(): a mutator
\* that has returned from mutate() never answers.
KTimeout ==
    /\ KAt({"receive1", "receive2", "receive3"})
    /\ channels[collect.i].pending
    /\ mutate[collect.i].pc = "done"
    /\ fatal' = "timeout"
    /\ UNCHANGED << nodes, global_stack, global_integers, channels, local,
                    collect, mutate, gchVars >>

\* assert(!local.dirty) at the top of the trace loop; a pass begins.
KScan ==
    /\ KAt({"scan"})
    /\ IF local[C0].dirty
       THEN /\ fatal' = "assert"
            /\ UNCHANGED collect
       ELSE /\ collect' = [collect EXCEPT !.pc = "object", !.i = 1]
            /\ UNCHANGED fatal
    /\ UNCHANGED << nodes, global_stack, global_integers, channels, local,
                    mutate, gchVars >>

\* for (Object* object : objects): compare_exchange_strong(GRAY, BLACK) and
\* the classification of what it found.
KScanObject ==
    /\ KAt({"object"})
    /\ collect.i <= Len(collect.objects)
    /\ LET o == collect.objects[collect.i]
           c == nodes[o].color
       IN IF c = GRAY
          THEN /\ nodes' = [nodes EXCEPT ![o].color = local[C0].BLACK]
               /\ collect' = [collect EXCEPT !.pc = "trace", !.parent = o]
               /\ UNCHANGED fatal
          ELSE IF c \in {local[C0].BLACK, local[C0].WHITE}
          THEN /\ collect' = [collect EXCEPT !.i = @ + 1]
               /\ UNCHANGED << nodes, fatal >>
          ELSE /\ fatal' = "scan"
               /\ UNCHANGED << nodes, collect >>
    /\ UNCHANGED << global_stack, global_integers, channels, local, mutate,
                    gchVars >>

\* Node<T>::_gc_scan, implementation B: a WHITE child goes straight to
\* BLACK and is traced into.
KTrace ==
    /\ KAt({"trace"})
    /\ LET child == nodes[collect.parent].next
       IN IF child = Null
          THEN /\ collect' = [collect EXCEPT !.pc = "object", !.i = @ + 1,
                                             !.parent = Null]
               /\ UNCHANGED << nodes, local, fatal >>
          ELSE IF nodes[child].color = local[C0].WHITE
          THEN /\ nodes' = [nodes EXCEPT ![child].color = local[C0].BLACK]
               /\ local' = [local EXCEPT ![C0].dirty = TRUE]
               /\ collect' = [collect EXCEPT !.parent = child]
               /\ UNCHANGED fatal
          ELSE IF nodes[child].color \in {GRAY, local[C0].BLACK}
          THEN /\ collect' = [collect EXCEPT !.pc = "object", !.i = @ + 1,
                                             !.parent = Null]
               /\ UNCHANGED << nodes, local, fatal >>
          ELSE /\ fatal' = "assert"
               /\ UNCHANGED << nodes, local, collect >>
    /\ UNCHANGED << global_stack, global_integers, channels, mutate, gchVars >>

\* } while (local.dirty); assert(!local.dirty).
KScanEnd ==
    /\ KAt({"object"})
    /\ collect.i > Len(collect.objects)
    /\ IF local[C0].dirty
       THEN /\ local' = [local EXCEPT ![C0].dirty = FALSE]
            /\ collect' = [collect EXCEPT !.i = 1]
       ELSE /\ collect' = [collect EXCEPT !.pc = "request2", !.i = 0]
            /\ UNCHANGED local
    /\ UNCHANGED << nodes, global_stack, global_integers, channels, mutate,
                    fatal, gchVars >>

\* The sweep loop: BLACK is retained; WHITE is swapped with the last
\* element, popped, poisoned with GREEN and deleted; anything else is fatal.
KSweep ==
    /\ KAt({"sweep"})
    /\ collect.first <= Len(collect.objects)
    /\ LET o == collect.objects[collect.first]
           c == nodes[o].color
           n == Len(collect.objects)
       IN IF c = local[C0].BLACK
          THEN /\ collect' = [collect EXCEPT !.first = @ + 1]
               /\ UNCHANGED << nodes, fatal >>
          ELSE IF c = local[C0].WHITE
          THEN /\ collect' = [collect EXCEPT
                                 !.objects = SubSeq(
                                     [collect.objects EXCEPT
                                         ![collect.first] = collect.objects[n]],
                                     1, n - 1)]
               /\ nodes' = [nodes EXCEPT ![o].color = GREEN,
                                         ![o].state = "deleted"]
               /\ UNCHANGED fatal
          ELSE /\ fatal' = "sweep"
               /\ UNCHANGED << nodes, collect >>
    /\ UNCHANGED << global_stack, global_integers, channels, local, mutate,
                    gchVars >>

\* std::swap(local.BLACK, local.WHITE).
KRemap ==
    /\ KAt({"sweep"})
    /\ collect.first > Len(collect.objects)
    /\ local' = [local EXCEPT ![C0].WHITE = local[C0].BLACK,
                              ![C0].BLACK = local[C0].WHITE]
    /\ collect' = [collect EXCEPT !.pc = "request3", !.i = 0, !.first = 1]
    /\ UNCHANGED << nodes, global_stack, global_integers, channels, mutate,
                    fatal, gchVars >>

KStep ==
    \/ KBegin \/ KRequest \/ KReceiveInfants \/ KReceiveDirty
    \/ KReceiveRemap \/ KTimeout \/ KScan \/ KScanObject \/ KTrace
    \/ KScanEnd \/ KSweep \/ KRemap

\* exercise(): the collector thread and the mutator threads run.
StackNext == KStep \/ \E m \in Indices : SStep(m)
StackStart == GcInit /\ NoTrie /\ StackInit /\ NoQueue /\ NoStr /\ NoChan
StackSpec == StackStart /\ [][StackNext]_vars

\* The nodes linked from the head of global_stack.
RECURSIVE Linked(_, _)
Linked(n, seen) ==
    IF n = Null \/ n \in seen THEN seen
    ELSE Linked(nodes[n].next, seen \cup {n})
OnStack == Linked(global_stack, {})

\* How often pop has returned the integer v, over all mutators.
TimesPopped(v) ==
    Cardinality({<< m, j >> \in Indices \X (1..Cardinality(Nodes)) :
                    j <= Len(mutate[m].integers) /\ mutate[m].integers[j] = v})

\* All mutator threads have returned from mutate(): exercise() has joined
\* them.
AllJoined == \A m \in Indices : mutate[m].pc = "done"

\* C22: the Treiber stack under concurrent collection.  Every integer is
\* popped at most once, only integers that were pushed are popped, no
\* thread touches a deleted node and no fatal branch other than the
\* collector's timeout is taken, the collector deletes no node that is
\* linked from the head, and once all mutators have returned every pushed
\* integer is in global_integers exactly once or still on the stack.
C22_TreiberStack ==
    /\ fatal \in {"none", "timeout"}
    /\ \A n \in Nodes : TimesPopped(n - 1) <= 1
    /\ \A n \in Nodes : TimesPopped(n - 1) = 1 => nodes[n].pushed
    /\ \A n \in OnStack : nodes[n].state = "live"
    /\ AllJoined =>
          \A n \in Nodes :
              nodes[n].pushed =>
                  Cardinality({j \in 1..Len(global_integers) :
                                  global_integers[j] = n - 1})
                      = (IF n \in OnStack THEN 0 ELSE 1)

\* All mutators have returned, an integer has been popped, another is
\* still on the stack, and the collector has deleted a popped node.
C22_Witness ==
    /\ AllJoined
    /\ global_integers # << >>
    /\ OnStack # {}
    /\ \E n \in Nodes : nodes[n].state = "deleted"

----------------------------------------------------------------------------
\* The collector's sweep deletes object o in this step.
SweepFrees(o) == status[o] = "live" /\ status'[o] = "deleted"

\* C23: a raw pointer a mutator loaded from a strong field (or from a root)
\* of an object it could reach stays valid until the mutator's next
\* acknowledged handshake: while the mutator still holds the pointer, which
\* handshake() and leave() take away, no step deletes the object.
C23_RawPointerValid ==
    [][\A m \in Mutators :
          (reg[m] # Null /\ reg'[m] = reg[m]) => ~SweepFrees(reg[m])]_vars

----------------------------------------------------------------------------
(* Nested enter and leave.                                                 *)

\* enter() called by a mutator that may already be inside enter().
MEnterNested(m) ==
    /\ ~aborted /\ mpc[m] = "idle"
    /\ UNCHANGED ctVars
    /\ EnterUpTo(m, MaxNest)
    /\ UNCHANGED << gwhite, galloc, groots, ldirty, lalloc, lroots, heapVars,
                    collVars, mutVars, aborted, ghostVars >>

NestNext == Next \/ \E m \in Mutators : MEnterNested(m)
NestSpec == Init /\ [][NestNext]_vars

\* Everything a thread's enter() or leave() could touch besides its depth.
BesidesDepth ==
    << globalVars, chan, ldirty, lalloc, lroots, lchan, enters, heapVars,
       collVars, mutVars, aborted >>

\* The thread's channel has just been created and is the last entrant.
PublishesChannel(t) ==
    /\ lchan[t] = Null /\ lchan'[t] # Null
    /\ chan'[lchan'[t]] = NewChannel
    /\ entrants' = Append(entrants, lchan'[t])

\* The thread's channel is marked abandoned and receives the allocations
\* the thread had not handed over.
AbandonsChannel(t) ==
    LET c == lchan[t] IN
    /\ chan'[c].abandoned /\ ~chan[c].abandoned
    /\ chan'[c].infants = chan[c].infants \o lalloc[t]
    /\ lalloc'[t] = << >>

\* C24: enter and leave are reentrant.  The depth is never negative; the
\* enter that takes the depth from 0 to 1 creates a Channel and publishes
\* it in global.entrants and the leave that takes it from 1 to 0 marks the
\* channel abandoned and hands the allocations over; an inner enter or
\* leave changes the depth and nothing else; and no other step publishes
\* or abandons a channel.
C24_Reentrant ==
    /\ [](\A t \in Threads : ldepth[t] >= 0)
    /\ [][\A t \in Threads :
             /\ (ldepth[t] = 0 /\ ldepth'[t] = 1) => PublishesChannel(t)
             /\ (ldepth[t] = 1 /\ ldepth'[t] = 0) => AbandonsChannel(t)
             /\ (ldepth[t] >= 1 /\ ldepth'[t] >= 1 /\ ldepth'[t] # ldepth[t])
                   => UNCHANGED BesidesDepth
             /\ lchan'[t] # lchan[t] /\ lchan'[t] # Null
                   => (ldepth[t] = 0 /\ ldepth'[t] = 1)
             /\ (lchan[t] # Null /\ ~chan[lchan[t]].abandoned
                 /\ chan'[lchan[t]].abandoned)
                   => (ldepth[t] = 1 /\ ldepth'[t] = 0)]_vars
    /\ [][Len(entrants') > Len(entrants)
             => \E t \in Threads : ldepth[t] = 0 /\ ldepth'[t] = 1]_vars

\* A mutator is inside a nested enter, on a channel the collector has
\* accepted, with allocations of its own.
C24_Witness ==
    \E m \in Mutators :
        /\ ldepth[m] = 2
        /\ lalloc[m] # << >>
        /\ \E i \in 1..Len(mutators) : mutators[i] = lchan[m]

----------------------------------------------------------------------------
\* No mutator is registered: the channels the collector knows of or is
\* about to accept are at most its own, created by the gc::enter() at the
\* top of collect().
NoMutatorRegistered ==
    \A i \in 1..Len(mutators \o entrants) :
        (mutators \o entrants)[i] = lchan[Collector]

\* C25: when the collector reaches accept_entrants with an empty objects
\* list and no registered mutator it blocks on global.condition_variable:
\* it stays in accept_entrants and starts no handshake round until an
\* enter() has published a channel.
C25_BlocksWhenIdle ==
    [][(cpc = "accept" /\ objects = << >> /\ NoMutatorRegistered)
          => cpc' = "accept"]_vars

----------------------------------------------------------------------------
\* shade has been applied to every object of the set by thread t: none
\* that was WHITE is left with another colour than GRAY, and if one was
\* WHITE the thread is dirty.
RootsShaded(t, S) ==
    /\ \A r \in S \ {Null} : color[r] = gwhite => color'[r] = GRAY
    /\ (\E r \in S \ {Null} : color[r] = gwhite) => ldirty'[t]

\* The collector moves to the step named pc.
Reaches(pc) == cpc # pc /\ cpc' = pc

-----------------------------------------------------------------------------
\* The dirty flag of a mutator thread.

\* Mutator m acknowledges a handshake (gc.cpp:124-142) or leaves the
\* collectible state for good (gc.cpp:75-98) in this step.
Acknowledges(m) ==
    /\ lchan[m] # Null /\ chan[lchan[m]].pending
    /\ ldepth'[m] = ldepth[m] /\ ~chan'[lchan[m]].pending
Leaves(m) == ldepth[m] = 1 /\ ldepth'[m] = 0

\* C28: a shade by mutator m that turns an object from WHITE to GRAY sets
\* m's dirty flag; the flag is cleared only where m acknowledges a handshake
\* or leaves, in the step that holds the channel mutex and copies the flag
\* to channel.dirty; and a step of m in which no colour changes, other than
\* these two, leaves the flag as it was.
C28_DirtyFlag ==
    [][\A m \in Mutators : MutatorStep(m) =>
          /\ (\E o \in Objs : /\ status[o] = "live" /\ color[o] = gwhite
                              /\ color'[o] = GRAY /\ color'[o] # color[o])
                => ldirty'[m]
          /\ (ldirty[m] /\ ~ldirty'[m])
                => /\ Acknowledges(m) \/ Leaves(m)
                   /\ chan'[lchan[m]].dirty
          /\ (color' = color /\ ~Acknowledges(m) /\ ~Leaves(m))
                => ldirty'[m] = ldirty[m]]_vars

-----------------------------------------------------------------------------
\* C29: in every cycle WHITE, GRAY, BLACK (the collector's white ^ 1) and RED
\* are four different values, and one mask takes WHITE to BLACK everywhere:
\* in the collector loop, in ScanContext::push and ScanContext::black, in
\* the assertion of ScanContextPrivate::process, and in the try-upgrade of
\* an S-node.
C29_ColourEncoding ==
    /\ Cardinality({gwhite, GRAY, Xor(gwhite, CollectorMask), RED}) = 4
    /\ PushMask = CollectorMask
    /\ PushBlack = ProcessBlack
    /\ UpgradeMask = CollectorMask

-----------------------------------------------------------------------------
\* The colour remap.

\* The collector is between the allocation flip and the remap of a cycle.
FlipToRemap == round \in {"flip", "trace"} /\ cpc \notin {"enter", "flip"}

\* The remap happens in this step.
Remaps == cpc = "sweep" /\ round' = "remap"

\* C30: at the top of the collector loop global.alloc = global.white = the
\* collector's white, so the two assertions there hold; from the allocation
\* flip until the remap global.alloc is the collector's black; the remap
\* exchanges the collector's white and black, publishes the new white and
\* writes no colour field, so every object the sweep kept as BLACK is WHITE
\* once the remap is done; and until the next cycle's flip an object that is
\* WHITE changes colour only by being shaded GRAY.
C30_ColourRemap ==
    /\ [](cpc = "flip" => (gwhite = white /\ galloc = white))
    /\ [](FlipToRemap => (galloc = black /\ gwhite = white))
    /\ [][/\ (cpc = "flip" /\ cpc' # "flip") => ~aborted'
          /\ Remaps =>
               /\ white' = black /\ black' = white /\ gwhite' = white'
               /\ color' = color /\ galloc' = galloc
               /\ \A o \in Range(objects) : color[o] = black => color'[o] = white'
          /\ \A o \in Objs :
               (round = "remap" /\ status[o] = "live" /\ status'[o] = "live"
                /\ color[o] = white /\ color'[o] # color[o]) => color'[o] = GRAY
         ]_vars

\* The second remap has just happened (the collector's white is the initial
\* white again), and an object that the sweep kept is WHITE.
C30_Witness ==
    /\ round = "remap" /\ cpc = "accept" /\ cycle = 2 /\ white = WhiteInit
    /\ \E o \in Range(objects) : status[o] = "live" /\ color[o] = white

-----------------------------------------------------------------------------
\* gc::deque<T> of queue.hpp: a ring of pages of COUNT elements each, and two
\* pointers _begin and _end into it.  The deque is used by one thread at a
\* time (the channel's under its mutex), so each member function is one step.
\* fifo[d] is the sequence of the elements pushed on d and not yet popped,
\* kept beside the deque to state what the deque should hold.

\* new node_type: a page not in use (its fields are uninitialised; prev and
\* next are written by the caller before they are read).
NewPage == CHOOSE n \in Pages : ~pages[n].live /\ \A k \in Pages : ~pages[k].live => n <= k
HasFreePage == \E n \in Pages : ~pages[n].live

\* bool empty() const { return _begin == _end; }   (nullptr == nullptr too)
Empty(d) == deques[d].begin = deques[d].end

\* T& front() { assert(!empty()); return *_begin; }
front(d) == pages[deques[d].begin.node].elements[deques[d].begin.off]

\* _from_null: one page linked to itself, both pointers INIT elements in.
FromNull(pg, n) ==
    [pg EXCEPT ![n] = [live |-> TRUE, prev |-> n, next |-> n,
                       elements |-> [k \in 0..(COUNT - 1) |-> 0]]]

\* _insert_before(node): a new page p between node->prev and node.
InsertBefore(pg, p, node) ==
    LET pv == pg[node].prev
        a == [pg EXCEPT ![p] = [live |-> TRUE, prev |-> pv, next |-> node,
                                elements |-> [k \in 0..(COUNT - 1) |-> 0]]]
        b == [a EXCEPT ![node].prev = p]
    IN  [b EXCEPT ![b[p].prev].next = p]

\* A broken emplace_back that, at the end of the last page, always goes on
\* to the next page of the ring, the first page or not.
NeverInsert(pg, lastp, firstp) == FALSE

\* if (last->next == first) _insert_before(first);
MustInsert(pg, lastp, firstp) == pg[lastp].next = firstp

\* emplace_back / push_back (queue.hpp:209-226) of value v on deque d.
PushBack(d, v) ==
    /\ pushes < MaxPushes
    /\ v = pushes + 1
    /\ LET fresh == deques[d].end = NullPtr
           n0 == NewPage
           pg0 == IF fresh THEN FromNull(pages, n0) ELSE pages
           b == IF fresh THEN Ptr(n0, INIT) ELSE deques[d].begin
           e == IF fresh THEN Ptr(n0, INIT) ELSE deques[d].end
           firstp == b.node
           lastp == e.node
           pg1 == [pg0 EXCEPT ![lastp].elements[e.off] = v]
           atEnd == e.off + 1 = COUNT
           grow == atEnd /\ MustInsert(pg1, lastp, firstp)
           n1 == CHOOSE n \in Pages :
                    ~pg1[n].live /\ \A k \in Pages : ~pg1[k].live => n <= k
           pg2 == IF grow THEN InsertBefore(pg1, n1, firstp) ELSE pg1
           e2 == IF atEnd THEN Ptr(pg2[lastp].next, 0) ELSE Ptr(lastp, e.off + 1)
       IN  /\ fresh => HasFreePage
           /\ grow => \E n \in Pages : ~pg1[n].live
           /\ pages' = pg2
           /\ deques' = [deques EXCEPT ![d] = [begin |-> b, end |-> e2]]
    /\ fifo' = [fifo EXCEPT ![d] = Append(@, v)]
    /\ pushes' = pushes + 1
    /\ UNCHANGED << gcTrieVars, stackVars, partVars >>

\* pop_front (queue.hpp:249-260); the caller has found the deque not empty.
PopFront(d) ==
    /\ ~Empty(d)
    /\ LET b == deques[d].begin
           firstp == b.node
           moved == Ptr(firstp, b.off + 1)
       IN  /\ pages' = [pages EXCEPT ![firstp].elements[b.off] = 0]
           /\ deques' = [deques EXCEPT ![d] =
                 IF moved.off = COUNT
                 THEN IF moved # deques[d].end
                      THEN [@ EXCEPT !.begin = Ptr(pages[firstp].next, 0)]
                      ELSE [begin |-> Ptr(firstp, INIT), end |-> Ptr(firstp, INIT)]
                 ELSE [@ EXCEPT !.begin = moved]]
    /\ fifo' = [fifo EXCEPT ![d] = IF @ = << >> THEN @ ELSE Tail(@)]
    /\ UNCHANGED << pushes, gcTrieVars, stackVars, partVars >>

\* deque& swap(deque& other) (queue.hpp:152-157).
Swap(d, o) ==
    /\ d # o
    /\ deques' = [deques EXCEPT ![d] = deques[o], ![o] = deques[d]]
    /\ fifo' = [fifo EXCEPT ![d] = fifo[o], ![o] = fifo[d]]
    /\ UNCHANGED << pages, pushes, gcTrieVars, stackVars, partVars >>

QueueNext ==
    \/ \E d \in Deques : PushBack(d, pushes + 1)
    \/ \E d \in Deques : PopFront(d)
    \/ Swap(1, 2)

QueueStart == GcInit /\ NoTrie /\ NoStack /\ QueueInit /\ NoStr /\ NoChan
QueueSpec == QueueStart /\ [][QueueNext]_vars

\* _advance (queue.hpp:90-97): the element after p, on the next page of the
\* ring after the last element of a page.
Advance(p) ==
    IF p.off + 1 = COUNT THEN Ptr(pages[p.node].next, 0)
    ELSE Ptr(p.node, p.off + 1)

\* What iterating from p to e yields, at most n elements.
RECURSIVE Walk(_, _, _)
Walk(p, e, n) ==
    IF p = e \/ n = 0 \/ p.node = 0 THEN << >>
    ELSE << pages[p.node].elements[p.off] >> \o Walk(Advance(p), e, n - 1)

Contents(d) == Walk(deques[d].begin, deques[d].end, MaxPushes + 1)

\* C27: a deque is a FIFO sequence: it holds exactly the elements pushed and
\* not yet popped, in the order pushed (so swap, which exchanges what the two
\* deques should hold, exchanges what they do hold); front() is the oldest
\* of them; empty() holds exactly when there is none.
C27_DequeFifo ==
    \A d \in Deques :
        /\ Contents(d) = fifo[d]
        /\ Empty(d) <=> fifo[d] = << >>
        /\ ~Empty(d) => front(d) = Head(fifo[d])

\* A deque whose elements run over a page boundary, after it popped elements
\* of an earlier page, while the other deque holds nullptr and the ring has
\* three pages.
C27_Witness ==
    \E d \in Deques, o \in Deques :
        /\ deques[d].begin.node # deques[d].end.node
        /\ deques[d].begin.node # 0
        /\ Len(fifo[d]) > COUNT
        /\ Head(fifo[d]) > INIT + 1
        /\ deques[o] = [begin |-> NullPtr, end |-> NullPtr]
        /\ Cardinality({n \in Pages : pages[n].live}) >= 3

-----------------------------------------------------------------------------
\* What the collector knows after step 1.

\* The step-1 handshake round of the cycle has completed and the remap has
\* not happened yet.
Step1Done ==
    \/ round = "flip" /\ cpc \in {"scanbegin", "scan", "scanobject", "process"}
    \/ round = "trace"

\* C31: from the end of the step-1 round until the remap every existing
\* object that is WHITE or GRAY is in the collector's list of objects, and
\* every existing object that is not in the list is BLACK.
C31_CollectorKnowsWhiteAndGray ==
    (Step1Done /\ ~aborted) =>
        \A o \in Objs : status[o] = "live" =>
            /\ color[o] \in {white, GRAY} => o \in Range(objects)
            /\ o \notin Range(objects) => color[o] = black

-----------------------------------------------------------------------------
\* C32: a handshake() that finds a request pending does the following in
\* one critical section: channel.dirty gets the local dirty flag and the
\* flag is cleared; the local allocations become channel.infants exactly when
\* request_infants is set; request_infants and pending are cleared.  The
\* notify comes after the critical section and wakes a collector waiting on
\* that channel.  A handshake() that finds no request pending leaves the
\* channel, the dirty flag and the allocations alone and notifies nobody.
C32_HandshakeEffect ==
    [][\A m \in Mutators : LET c == lchan[m] IN
          /\ Acknowledges(m) =>
                /\ chan'[c].dirty = ldirty[m] /\ ~ldirty'[m]
                /\ chan[c].request_infants =>
                      (chan'[c].infants = lalloc[m] /\ lalloc'[m] = << >>)
                /\ ~chan[c].request_infants =>
                      (chan'[c].infants = chan[c].infants /\ lalloc'[m] = lalloc[m])
                /\ ~chan'[c].request_infants /\ ~chan'[c].pending
                /\ chan'[c].abandoned = chan[c].abandoned
                /\ mpc'[m] = "hs_finish" /\ cwaiting' = cwaiting
          /\ (mpc[m] = "hs_finish" /\ mpc'[m] # "hs_finish") =>
                /\ (cwaiting /\ mutators2 # << >> /\ Last(mutators2) = c)
                      => ~cwaiting'
                /\ chan' = chan
          /\ (MHandshake(m) /\ ~chan[c].pending) =>
                /\ chan' = chan /\ ldirty' = ldirty /\ lalloc' = lalloc
                /\ cwaiting' = cwaiting /\ mpc'[m] = "idle"
      ]_vars

\* A mutator has just left the critical section of a handshake in which it
\* published a set dirty flag and handed over an allocation.
C32_Witness ==
    \E m \in Mutators :
        /\ mpc[m] = "hs_finish" /\ ~aborted
        /\ chan[lchan[m]].dirty /\ chan[lchan[m]].infants # << >>
        /\ lalloc[m] = << >> /\ ~ldirty[m]

-----------------------------------------------------------------------------
\* The scan stack.

\* Object o goes on the scan stack in this step.
PushedOnStack(o) ==
    Len(stack') > 0 /\ Last(stack') = o
        /\ (Len(stack') > Len(stack) \/ (cpc = "process" /\ Len(stack') = Len(stack)))

\* C33: an object goes on the scan stack only in the step whose CAS takes it
\* from WHITE to the collector's BLACK (so it is not pushed again in the
\* cycle); every object that process() pops is BLACK, so its assertion
\* holds; and a trace that has begun empties the stack.
C33_ScanStack ==
    /\ [][/\ \A o \in Objs : PushedOnStack(o) =>
                (color[o] = white /\ color'[o] = black)
          /\ cpc = "process" => (color[Last(stack)] = black /\ ~aborted')
         ]_vars
    /\ (cpc = "process") ~> (stack = << >>)

-----------------------------------------------------------------------------
\* C34: an S-node is never GRAY; the try-upgrade, which is its shade, takes
\* it from WHITE to BLACK in one compare-exchange and changes nothing
\* otherwise; and the scan pass and the sweep find every S-node of the list
\* WHITE, BLACK or RED.
C34_LeafNeverGray ==
    /\ [](\A s \in SNodes : sstatus[s] = "live" => scolor[s] # GRAY)
    /\ [][/\ \A t \in CtThreads : (tpc[t] = "upgrade" /\ tpc'[t] # "upgrade") =>
                \A s \in SNodes :
                    scolor'[s] # scolor[s] =>
                        (scolor[s] = gwhite /\ scolor'[s] = SweepBlack)
          /\ (wpc = "scan" /\ widx <= Len(sobjects)) =>
                scolor[sobjects[widx]] \in {white, black, RED}
          /\ (wpc = "sweep" /\ widx <= Len(sobjects) /\ widx' # widx) =>
                scolor[sobjects[widx]] \in {SweepWhite, SweepBlack, RED}
         ]_vars

-----------------------------------------------------------------------------
\* The root of the trie.

EmptyRoot == imain[RootI].kind = "C" /\ imain[RootI].bmp = {}
                /\ imain[RootI].array = << >>

\* Thread t takes its next step.
CtSteps(t) == tpc'[t] # tpc[t] \/ tpath'[t] # tpath[t]

\* C35: the main node of the root I-node is always a C-node; the step that
\* removes the last entry of the trie leaves the root with a C-node of
\* empty bitmap; a lookup that loads that C-node returns none, and an
\* emplace that loads it and wins its compare-exchange puts its new S-node
\* in the trie and returns it.
C35_RootIsCNode ==
    /\ [](imain[RootI].kind = "C")
    /\ [][/\ (Entries # {} /\ Entries' = {}) => EmptyRoot'
          /\ \A t \in CtMutators :
               (tpc[t] = "load" /\ CurI(t) = RootI /\ EmptyRoot /\ CtSteps(t)) =>
                  /\ top[t].op = "lookup" => (tpc'[t] = "idle" /\ tres'[t] = 0)
                  /\ top[t].op = "emplace" => (tpc'[t] = "cas" /\ tcn'[t] = imain[RootI])
          /\ \A t \in CtMutators :
               (tpc[t] = "cas" /\ top[t].op = "emplace" /\ EmptyRoot
                  /\ tcn[t].id = imain[RootI].id /\ tpath[t] = << RootI >>
                  /\ CtSteps(t)) =>
                  /\ tpc'[t] = "idle" /\ Entries' = {tres'[t]}
                  /\ sview'[tres'[t]] = top[t].view
         ]_vars

\* The trie is empty again after an S-node was removed from it, and a
\* thread is about to emplace into the empty root.
C35_Witness ==
    /\ EmptyRoot /\ \E v \in Views : absent[v]
    /\ \E t \in CtMutators : tpc[t] = "cas" /\ top[t].op = "emplace"
                               /\ tcn[t].id = imain[RootI].id

-----------------------------------------------------------------------------
\* Tombs.

\* The compare_exchange that thread t is about to try on I-node i succeeds.
WillHit(t, i) == imain[i].id = tcn[t].id

\* Back at the root with the same operation.
AtRootAgain(t) == tpc'[t] = "load" /\ tpath'[t] = << RootI >> /\ top'[t] = top[t]

\* C36: a remove whose compare-exchange leaves a C-node below the root with
\* a single S child installs a T-node with that S; an operation that loads
\* a T-node cleans the I-node above and restarts at the root; the
\* compare-exchange of clean and of cleanParent, when it succeeds, puts the
\* S of the T-node in the place of the I-node that held the T-node; and
\* neither changes which S-nodes the trie holds.
C36_Tombs ==
    [][\A t \in CtMutators : CtSteps(t) =>
          /\ (tpc[t] = "cas" /\ tkind[t] = "cremove" /\ Lev(t) > 0
                /\ WillHit(t, CurI(t)) /\ Len(tcn[t].array) = 2
                /\ \E j \in 1..2 : /\ tcn[t].array[j] = Branch("S", top[t].k)
                                   /\ tcn[t].array[3 - j].k = "S") =>
                /\ imain'[CurI(t)].kind = "T"
                /\ Branch("S", imain'[CurI(t)].sn) \in Range(tcn[t].array)
                /\ imain'[CurI(t)].sn # top[t].k
          /\ (tpc[t] = "load" /\ imain[CurI(t)].kind = "T") => tpc'[t] = "clean"
          /\ tpc[t] = "clean" => (tpc'[t] = "cleancas" \/ AtRootAgain(t))
          /\ tpc[t] = "cleancas" => (AtRootAgain(t) /\ Entries' = Entries)
          /\ (tpc[t] = "cleancas" /\ WillHit(t, Par(t))) =>
                \A j \in 1..Len(tcn[t].array) :
                    LET b == tcn[t].array[j] IN
                    (b.k = "I" /\ imain[b.p].kind = "T") =>
                        /\ Branch("I", b.p) \notin Range(imain'[Par(t)].array)
                        /\ imain[b.p].sn \in Entries'
          /\ tpc[t] = "cpcas" => Entries' = Entries
          /\ (tpc[t] = "cpcas" /\ WillHit(t, tpath[t][tj[t] - 1])) =>
                LET i == tpath[t][tj[t]] IN
                /\ Branch("I", i) \notin Range(imain'[tpath[t][tj[t] - 1]].array)
                /\ imain[i].kind = "T" /\ imain[i].sn \in Entries'
      ]_vars

\* A clean is about to succeed on a C-node one of whose I-node children
\* holds a T-node.
C36_Witness ==
    \E t \in CtMutators :
        /\ tpc[t] = "cleancas" /\ WillHit(t, Par(t))
        /\ \E j \in 1..Len(tcn[t].array) :
              tcn[t].array[j].k = "I" /\ imain[tcn[t].array[j].p].kind = "T"

-----------------------------------------------------------------------------
\* The shape of the trie.

\* The flag of the j-th child of a C-node.
FlagOf(bmp, j) == CHOOSE f \in bmp : Cardinality({b \in bmp : b < f}) + 1 = j

\* The S-nodes below a branch.
Under(b) == IF b.k = "S" THEN {b.p} ELSE EntriesAt(b.p, MaxI)

\* The subtree of I-node i, which lies d I-nodes below the top (the root has
\* d = 1), is well formed.
RECURSIVE ShapeOK(_, _, _)
ShapeOK(i, d, fuel) ==
    LET m == imain[i] IN
    IF fuel = 0 THEN TRUE
    ELSE IF m.kind = "C" THEN
        /\ d > 1 => m.array # << >>
        /\ Len(m.array) = Cardinality(m.bmp)
        /\ \A j \in 1..Len(m.array) :
              /\ \A s \in Under(m.array[j]) :
                    Index(Hash(s), LevAt(d)) = FlagOf(m.bmp, j)
              /\ m.array[j].k = "I" => ShapeOK(m.array[j].p, d + 1, fuel - 1)
    ELSE IF m.kind = "L" THEN Len(m.chain) >= 2
    ELSE m.kind = "T"

\* C37: every C-node below the root has a child and every S-node of the
\* trie lies in the slot that its hash selects at every level above it;
\* every L-chain has at least two entries; a remove never takes the only
\* child of a C-node below the root, and the assertion of LNode::vremoveA
\* holds.
C37_Shape ==
    /\ [](ShapeOK(RootI, 1, MaxI))
    /\ [][\A t \in CtMutators : CtSteps(t) =>
            /\ (tpc[t] = "cas" /\ tkind[t] = "cremove" /\ Lev(t) > 0)
                  => Len(tcn[t].array) >= 2
            /\ (tpc[t] = "cas" /\ tkind[t] = "lremove") => ~aborted'
         ]_vars

\* The trie has a C-node below the root and an L-chain, and a thread is
\* about to remove an S-node from the chain.
C37_Witness ==
    /\ \E i \in INodes \ {RootI} : imain[i].kind = "C"
    /\ \E i \in INodes : imain[i].kind = "L"
    /\ \E t \in CtMutators : tpc[t] = "cas" /\ tkind[t] = "lremove"

-----------------------------------------------------------------------------
\* The lifetime of a channel.

\* C38: no thread uses a channel that the collector has deleted; the
\* notify_all of a leaving mutator, issued after it has released the mutex
\* of the channel with abandoned set, acts on a channel that still exists.
C38_ChannelLifetime ==
    [][\A m \in Mutators : MLeaveNotify(m) => chan[lchan[m]].live]_vars

-----------------------------------------------------------------------------
(* The String of string.hpp: a set of String* under String::mutex, filled  *)
(* by String::from and emptied by String::sweep, beside the collector loop *)
(* of gc.cpp over the list of Strings.  A String is a Leaf: its scan does  *)
(* nothing and its shade goes from WHITE to BLACK of the context.          *)

NStr == 2
StrViews == 1..2
MaxStr == 3
MaxFrom == 3
MaxStrCycles == 2
StrMutators == 1..NStr
Strs == 1..MaxStr
Unlocked == -1

StrInit ==
    /\ strs = [s \in Strs |-> [view |-> 0, color |-> 0, status |-> "free", ret |-> 0]]
    /\ strset = {}
    /\ strmutex = Unlocked
    /\ strthr = [m \in StrMutators |-> [pc |-> "idle", v |-> 0, allocations |-> << >>]]
    /\ strgc = [pc |-> "flip", step |-> "load", idx |-> 1, ack |-> {},
                white |-> WhiteInit, black |-> Xor(WhiteInit, CollectorMask),
                gwhite |-> WhiteInit, galloc |-> WhiteInit, cycle |-> 1,
                froms |-> 0]

StrStart == GcInit /\ NoTrie /\ NoStack /\ NoQueue /\ NoChan /\ StrInit /\ strobjects = << >>

StrRunning == strgc.pc # "abort"

\* ShadeContext and SweepContext: WHITE() is _white, BLACK() is _white ^ 2.
ContextBlack(w) == Xor(w, ContextMask)

\* gc::shade of a Leaf: compare_exchange from WHITE to BLACK.
LeafShaded(c) == IF c = strgc.gwhite THEN ContextBlack(strgc.gwhite) ELSE c

\* Whether a String returned now is one the sweep of this cycle must keep:
\* the collector is between its flip and its remap.
AfterFlip == strgc.pc \in {"hs1", "scan", "hs2", "sweep"}

\* from(v), first part: std::unique_lock lock{mutex}.
StrFromLock(m, v) ==
    /\ StrRunning /\ strthr[m].pc = "idle" /\ strgc.froms < MaxFrom
    /\ strmutex = Unlocked
    /\ strmutex' = m
    /\ strthr' = [strthr EXCEPT ![m].pc = "locked", ![m].v = v]
    /\ strgc' = [strgc EXCEPT !.froms = @ + 1]
    /\ UNCHANGED << strs, strset, strobjects, gcTrieVars, stackVars,
                    queueVars, chanVars >>

\* from(v), under the lock: set.find; the String found is shaded, or a new
\* one is constructed with the colour global.alloc and inserted; the lock
\* is released on return.
StrFromBody(m) ==
    /\ StrRunning /\ strthr[m].pc = "locked"
    /\ LET v == strthr[m].v
           found == {s \in strset : strs[s].view = v}
           ret(s) == IF AfterFlip THEN strgc.cycle ELSE strs[s].ret
       IN
       IF found # {}
       THEN \E b \in found :
               /\ strs' = [strs EXCEPT ![b].color = LeafShaded(@), ![b].ret = ret(b)]
               /\ strthr' = [strthr EXCEPT ![m].pc = "idle"]
               /\ UNCHANGED strset
       ELSE \E b \in Strs :
               /\ strs[b].status = "free"
               /\ \A c \in Strs : strs[c].status = "free" => b <= c
               /\ strs' = [strs EXCEPT ![b] = [view |-> v, color |-> strgc.galloc,
                                               status |-> "live", ret |-> ret(b)]]
               /\ strset' = strset \cup {b}
               /\ strthr' = [strthr EXCEPT ![m].pc = "idle",
                                           ![m].allocations = Append(@, b)]
    /\ strmutex' = Unlocked
    /\ UNCHANGED << strgc, strobjects, gcTrieVars, stackVars, queueVars,
                    chanVars >>

\* gc::handshake() of a mutator: the step-1 round takes its allocations.
StrHandshake(m) ==
    /\ StrRunning /\ strthr[m].pc = "idle"
    /\ strgc.pc \in {"hs1", "hs2", "hs3"} /\ m \notin strgc.ack
    /\ strgc' = [strgc EXCEPT !.ack = @ \cup {m}]
    /\ IF strgc.pc = "hs1"
       THEN /\ strobjects' = strobjects \o strthr[m].allocations
            /\ strthr' = [strthr EXCEPT ![m].allocations = << >>]
       ELSE UNCHANGED << strobjects, strthr >>
    /\ UNCHANGED << strs, strset, strmutex, gcTrieVars, stackVars, queueVars,
                    chanVars >>

\* Top of the collector loop: the two asserts and global.alloc := black.
StrFlip ==
    /\ StrRunning /\ strgc.pc = "flip"
    /\ strgc' = IF strgc.gwhite # strgc.white \/ strgc.galloc # strgc.white
                THEN [strgc EXCEPT !.pc = "abort"]
                ELSE [strgc EXCEPT !.pc = "hs1", !.galloc = strgc.black, !.ack = {}]
    /\ UNCHANGED << strs, strset, strmutex, strthr, strobjects, gcTrieVars,
                    stackVars, queueVars, chanVars >>

\* Every mutator has acknowledged the round.
StrReceive ==
    /\ StrRunning /\ strgc.pc \in {"hs1", "hs2", "hs3"}
    /\ strgc.ack = StrMutators
    /\ strgc.pc = "hs3" => strgc.cycle < MaxStrCycles
    /\ strgc' = [strgc EXCEPT
                    !.pc = IF strgc.pc = "hs1" THEN "scan"
                           ELSE IF strgc.pc = "hs2" THEN "sweep" ELSE "flip",
                    !.cycle = IF strgc.pc = "hs3" THEN @ + 1 ELSE @,
                    !.idx = 1, !.ack = {}]
    /\ UNCHANGED << strs, strset, strmutex, strthr, strobjects, gcTrieVars,
                    stackVars, queueVars, chanVars >>

\* The scan pass: compare_exchange GRAY -> black on the next object, the
\* classification of the colour observed (abort() for none of black, GRAY,
\* white, RED); the scan of a Leaf does nothing.
StrScan ==
    /\ StrRunning /\ strgc.pc = "scan"
    /\ IF strgc.idx > Len(strobjects)
       THEN /\ strgc' = [strgc EXCEPT !.pc = "hs2", !.ack = {}]
            /\ UNCHANGED strs
       ELSE LET o == strobjects[strgc.idx]
                expected == strs[o].color
            IN
            /\ strs' = IF expected = GRAY THEN [strs EXCEPT ![o].color = strgc.black]
                       ELSE strs
            /\ strgc' = IF expected \in {strgc.black, GRAY, strgc.white, RED}
                        THEN [strgc EXCEPT !.idx = @ + 1]
                        ELSE [strgc EXCEPT !.pc = "abort"]
    /\ UNCHANGED << strset, strmutex, strthr, strobjects, gcTrieVars,
                    stackVars, queueVars, chanVars >>

\* String::sweep before the lock: the colour is loaded; assert(color !=
\* GRAY); the early return for BLACK.
StrSweepLoad ==
    /\ StrRunning /\ strgc.pc = "sweep" /\ strgc.step = "load"
    /\ strgc.idx <= Len(strobjects)
    /\ LET c == strs[strobjects[strgc.idx]].color IN
       strgc' = IF c = GRAY THEN [strgc EXCEPT !.pc = "abort"]
                ELSE IF c = ContextBlack(strgc.white)
                     THEN [strgc EXCEPT !.idx = @ + 1]
                     ELSE [strgc EXCEPT !.step = "lock"]
    /\ UNCHANGED << strs, strset, strmutex, strthr, strobjects, gcTrieVars,
                    stackVars, queueVars, chanVars >>

\* String::sweep: std::unique_lock lock{mutex}.
StrSweepLock ==
    /\ StrRunning /\ strgc.pc = "sweep" /\ strgc.step = "lock"
    /\ strmutex = Unlocked
    /\ strmutex' = Collector
    /\ strgc' = [strgc EXCEPT !.step = "locked"]
    /\ UNCHANGED << strs, strset, strthr, strobjects, gcTrieVars, stackVars,
                    queueVars, chanVars >>

\* String::sweep under the lock erases a String that is not BLACK.
ErasesColour(c) == c # ContextBlack(strgc.white)

\* String::sweep under the lock: the colour is loaded again; a String that
\* is still not BLACK is found in the set and erased; the lock is released.
StrSweepLocked ==
    /\ StrRunning /\ strgc.pc = "sweep" /\ strgc.step = "locked"
    /\ LET o == strobjects[strgc.idx]
           c == strs[o].color
       IN
       IF c = GRAY \/ (ErasesColour(c) /\ o \notin strset)
       THEN /\ strgc' = [strgc EXCEPT !.pc = "abort"]
            /\ UNCHANGED << strset, strmutex >>
       ELSE IF ~ErasesColour(c)
       THEN /\ strgc' = [strgc EXCEPT !.idx = @ + 1, !.step = "load"]
            /\ strmutex' = Unlocked
            /\ UNCHANGED strset
       ELSE /\ strset' = strset \ {o}
            /\ strmutex' = Unlocked
            /\ strgc' = [strgc EXCEPT !.step = "delete"]
    /\ UNCHANGED << strs, strthr, strobjects, gcTrieVars, stackVars,
                    queueVars, chanVars >>

\* delete this; return true: the collector drops the object from its list.
StrSweepDelete ==
    /\ StrRunning /\ strgc.pc = "sweep" /\ strgc.step = "delete"
    /\ strs' = [strs EXCEPT ![strobjects[strgc.idx]].status = "deleted"]
    /\ strobjects' = SwapRemoved(strobjects, strgc.idx)
    /\ strgc' = [strgc EXCEPT !.step = "load"]
    /\ UNCHANGED << strset, strmutex, strthr, gcTrieVars, stackVars,
                    queueVars, chanVars >>

\* The remap after the sweep: swap(white, black), global.white := white.
StrRemap ==
    /\ StrRunning /\ strgc.pc = "sweep" /\ strgc.step = "load"
    /\ strgc.idx > Len(strobjects)
    /\ strgc' = [strgc EXCEPT !.white = strgc.black, !.black = strgc.white,
                              !.gwhite = strgc.black, !.pc = "hs3", !.ack = {}]
    /\ UNCHANGED << strs, strset, strmutex, strthr, strobjects, gcTrieVars,
                    stackVars, queueVars, chanVars >>

StrNext ==
    \/ \E m \in StrMutators : (\E v \in StrViews : StrFromLock(m, v))
                                 \/ StrFromBody(m) \/ StrHandshake(m)
    \/ StrFlip \/ StrReceive \/ StrScan
    \/ StrSweepLoad \/ StrSweepLock \/ StrSweepLocked \/ StrSweepDelete \/ StrRemap

StrSpec == StrStart /\ [][StrNext]_vars

\* from() of mutator m returns String b.
FromReturns(m, b) ==
    /\ strthr[m].pc = "locked" /\ strthr'[m].pc = "idle"
    /\ strs'[b].view = strthr[m].v
    /\ strs'[b] # strs[b] \/ b \in {s \in strset : strs[s].view = strthr[m].v}
    /\ b \in strset'

-----------------------------------------------------------------------------
(* The Channel<T, CAPACITY> of channel.hpp: a std::deque under a mutex, a  *)
(* condition variable for the receivers and a counting semaphore that      *)
(* starts at CAPACITY.  Senders 1..NSend send the values t, t + NSend, ... *)

CAPACITY == 1
NSend == 2
NRecv == 2
MaxSendOps == 2
Senders == 1..NSend
Receivers == (NSend + 1)..(NSend + NRecv)

ChanInit ==
    /\ inner = << >>
    /\ semaphore = CAPACITY
    /\ chthr = [t \in Senders \cup Receivers |->
                  [pc |-> "idle", val |-> 0, n |-> 0, done |-> 0, refused |-> 0]]
    /\ sent = << >>
    /\ rcvd = << >>

ChanStart == GcInit /\ NoTrie /\ NoStack /\ NoQueue /\ NoStr /\ ChanInit

\* The value of the next send or try_send of sender t.
NextValue(t) == t + NSend * chthr[t].n

\* A broken try_acquire that always succeeds.
TryAcquiresAlways == TRUE
\* semaphore.try_acquire() succeeds.
TryAcquires == semaphore > 0

\* send(value), first part: push_back under the mutex, then notify_one.
SendPush(t) ==
    /\ chthr[t].pc = "idle" /\ chthr[t].n < MaxSendOps
    /\ inner' = Append(inner, NextValue(t))
    /\ sent' = Append(sent, NextValue(t))
    /\ chthr' = [chthr EXCEPT ![t].pc = "acquire", ![t].val = NextValue(t),
                              ![t].n = @ + 1]
    /\ UNCHANGED << semaphore, rcvd, gcTrieVars, stackVars, queueVars, strVars >>

\* send(value), second part: semaphore.acquire() blocks until the count is
\* positive; send returns.
SendAcquire(t) ==
    /\ chthr[t].pc = "acquire"
    /\ semaphore > 0
    /\ semaphore' = semaphore - 1
    /\ chthr' = [chthr EXCEPT ![t].pc = "idle", ![t].done = @ + 1]
    /\ UNCHANGED << inner, sent, rcvd, gcTrieVars, stackVars, queueVars, strVars >>

\* try_send(value), first part: try_acquire; on failure the value is
\* returned.
TrySendAcquire(t) ==
    /\ chthr[t].pc = "idle" /\ chthr[t].n < MaxSendOps
    /\ IF TryAcquires
       THEN /\ semaphore' = semaphore - 1
            /\ chthr' = [chthr EXCEPT ![t].pc = "push", ![t].val = NextValue(t),
                                      ![t].n = @ + 1]
       ELSE /\ chthr' = [chthr EXCEPT ![t].refused = NextValue(t), ![t].n = @ + 1]
            /\ UNCHANGED semaphore
    /\ UNCHANGED << inner, sent, rcvd, gcTrieVars, stackVars, queueVars, strVars >>

\* try_send(value), second part: push_back under the mutex, notify_one;
\* an empty optional is returned.
TrySendPush(t) ==
    /\ chthr[t].pc = "push"
    /\ inner' = Append(inner, chthr[t].val)
    /\ sent' = Append(sent, chthr[t].val)
    /\ chthr' = [chthr EXCEPT ![t].pc = "idle", ![t].done = @ + 1]
    /\ UNCHANGED << semaphore, rcvd, gcTrieVars, stackVars, queueVars, strVars >>

\* recv(), under the mutex: the wait ends when inner is not empty; the
\* front is moved out and popped.
RecvPop(t) ==
    /\ chthr[t].pc = "idle"
    /\ inner # << >>
    /\ inner' = Tail(inner)
    /\ rcvd' = Append(rcvd, Head(inner))
    /\ chthr' = [chthr EXCEPT ![t].pc = "release", ![t].val = Head(inner)]
    /\ UNCHANGED << semaphore, sent, gcTrieVars, stackVars, queueVars, strVars >>

\* try_recv(), under the mutex: the front if there is one, else nothing.
TryRecvPop(t) ==
    /\ chthr[t].pc = "idle"
    /\ IF inner # << >>
       THEN /\ inner' = Tail(inner)
            /\ rcvd' = Append(rcvd, Head(inner))
            /\ chthr' = [chthr EXCEPT ![t].pc = "release", ![t].val = Head(inner)]
       ELSE /\ chthr' = [chthr EXCEPT ![t].val = 0]
            /\ UNCHANGED << inner, rcvd >>
    /\ UNCHANGED << semaphore, sent, gcTrieVars, stackVars, queueVars, strVars >>

\* recv() and try_recv(), last part: semaphore.release(); the value is
\* returned.
RecvRelease(t) ==
    /\ chthr[t].pc = "release"
    /\ semaphore' = semaphore + 1
    /\ chthr' = [chthr EXCEPT ![t].pc = "idle", ![t].done = @ + 1]
    /\ UNCHANGED << inner, sent, rcvd, gcTrieVars, stackVars, queueVars, strVars >>

ChanNext ==
    \/ \E t \in Senders :
          SendPush(t) \/ SendAcquire(t) \/ TrySendAcquire(t) \/ TrySendPush(t)
    \/ \E t \in Receivers : RecvPop(t) \/ TryRecvPop(t) \/ RecvRelease(t)

ChanSpec == ChanStart /\ [][ChanNext]_vars

RECURSIVE SumDone(_)
SumDone(T) ==
    IF T = {} THEN 0
    ELSE LET t == CHOOSE x \in T : TRUE IN chthr[t].done + SumDone(T \ {t})

\* The senders inside send after the push, waiting for the semaphore.
BlockedInSend == {t \in Senders : chthr[t].pc = "acquire"}

\* C40: the values received are, in order, the values enqueued, each once;
\* the sends and try_sends that have returned with the value enqueued
\* exceed the receives that have returned by at most CAPACITY, and the
\* queue exceeds CAPACITY by at most the number of senders blocked in send;
\* a try_send either takes a unit of the semaphore and then enqueues its
\* value and returns nothing, or returns its value and enqueues nothing.
C40_BoundedChannel ==
    /\ [](/\ sent = rcvd \o inner
          /\ \A i, j \in 1..Len(sent) : sent[i] = sent[j] => i = j
          /\ SumDone(Senders) - SumDone(Receivers) <= CAPACITY
          /\ Len(inner) - CAPACITY <= Cardinality(BlockedInSend))
    /\ [][\A t \in Senders :
            /\ (TrySendAcquire(t) /\ chthr'[t].pc = "idle") =>
                  /\ chthr'[t].refused = NextValue(t)
                  /\ inner' = inner /\ chthr'[t].done = chthr[t].done
            /\ (TrySendAcquire(t) /\ chthr'[t].pc = "push") =>
                  /\ chthr'[t].refused = chthr[t].refused
                  /\ chthr'[t].val = NextValue(t)
            /\ TrySendPush(t) =>
                  /\ inner' = Append(inner, chthr[t].val)
                  /\ chthr'[t].refused = chthr[t].refused
         ]_vars

\* The queue holds more than CAPACITY values with a sender blocked in send,
\* a value has been received, and a try_send has been refused.
C40_Witness ==
    /\ Len(inner) > CAPACITY /\ BlockedInSend # {}
    /\ rcvd # << >>
    /\ \E t \in Senders : chthr[t].refused # 0
====
